---- MODULE Spec2Model ----
(***************************************************************************)
(* Isaac C++ core: the command router (CommandRouter), its strategies and  *)
(* the safety-tier classifier (TierValidator).                             *)
(*                                                                         *)
(* Text is modelled as a sequence of one-character strings, so that the    *)
(* scans, prefix tests, case folding, tokenising and the regex-based rule  *)
(* file parser are computed character by character as the code does.       *)
(* Positions are 1-based; the value 0 stands for std::string::npos.        *)
(***************************************************************************)
EXTENDS Integers, Sequences, FiniteSets, TLC

(***************************************************************************)
(* Bounds of the model.                                                    *)
(***************************************************************************)
\* Number of route_command and get_help calls made on one router.
MaxCalls == 3
\* Number of threads that share one router in the concurrent specification.
NumThreads == 2
\* Number of ShellAdapter calls made one after the other.
MaxShellCalls == 2
\* Number of lines a spawned command writes at most.
MaxOutput == 2
\* Number of MemoryPool objects one thread holds at most at a time.
MaxHeld == 2
\* Number of MemoryPool calls the threads make in all.
MaxPoolCalls == 6

(***************************************************************************)
(* Characters and strings.                                                 *)
(***************************************************************************)
npos == 0

QUOTE == "\""

UPPER ==
    <<"A", "B", "C", "D", "E", "F", "G", "H", "I", "J", "K", "L", "M",
      "N", "O", "P", "Q", "R", "S", "T", "U", "V", "W", "X", "Y", "Z">>

LOWER ==
    <<"a", "b", "c", "d", "e", "f", "g", "h", "i", "j", "k", "l", "m",
      "n", "o", "p", "q", "r", "s", "t", "u", "v", "w", "x", "y", "z">>

DIGITS == <<"0", "1", "2", "3", "4", "5", "6", "7", "8", "9">>

\* ::isspace in the "C" locale (the model's texts use ' ', '\t' and '\n').
isspace(c) == c \in {" ", "\t", "\n", "\r", "\f"}

\* \d of the ECMAScript regex grammar.
IsDigit(c) == c \in {DIGITS[i] : i \in 1..10}

DigitVal(c) == (CHOOSE i \in 1..10 : DIGITS[i] = c) - 1

\* ::tolower in the "C" locale: the lower-case letter of each upper-case one.
LowerOf ==
    [c \in {UPPER[i] : i \in 1..26} |->
        LOWER[CHOOSE i \in 1..26 : UPPER[i] = c]]

tolower(c) == IF c \in DOMAIN LowerOf THEN LowerOf[c] ELSE c

\* std::transform(s.begin(), s.end(), s.begin(), ::tolower)
ToLowerStr(s) == [i \in 1..Len(s) |-> tolower(s[i])]

\* s.find(c) for a character: first position of c at or after from, or npos.
RECURSIVE FindChar(_, _, _)
FindChar(s, c, from) ==
    IF from > Len(s) THEN npos
    ELSE IF s[from] = c THEN from
    ELSE FindChar(s, c, from + 1)

\* s.find(p) == 0 : p occurs at the very start of s.
StartsWith(s, p) ==
    /\ Len(p) <= Len(s)
    /\ SubSeq(s, 1, Len(p)) = p

\* s.substr(k) with a 0-based k, i.e. s without its first k characters.
substr(s, k) == SubSeq(s, k + 1, Len(s))

\* command.erase(begin, find_if(begin, end, !isspace)): drop leading spaces.
RECURSIVE SkipSpace(_, _)
SkipSpace(s, i) ==
    IF i > Len(s) \/ ~isspace(s[i]) THEN i ELSE SkipSpace(s, i + 1)

LTrim(s) == SubSeq(s, SkipSpace(s, 1), Len(s))

\* operator>> of std::istringstream into a std::string: skip white space,
\* then take characters up to the next white space.  Tokens(s, i) is the
\* sequence of all words extracted by repeated >> starting at position i.
RECURSIVE TokEnd(_, _)
TokEnd(s, i) ==
    IF i > Len(s) \/ isspace(s[i]) THEN i ELSE TokEnd(s, i + 1)

RECURSIVE Tokens(_, _)
Tokens(s, i) ==
    LET b == SkipSpace(s, i) IN
    IF b > Len(s) THEN <<>>
    ELSE LET e == TokEnd(s, b) IN <<SubSeq(s, b, e - 1)>> \o Tokens(s, e)

\* The word read by the n-th >> ("" when the stream is exhausted).
Word(s, n) == LET t == Tokens(s, 1) IN IF n <= Len(t) THEN t[n] ELSE <<>>

\* Character codes of the characters that can occur in a tier label, for
\* std::string's operator< (the key order of std::map<std::string, ...>).
CharCode(c) == IF c = "." THEN 46 ELSE 48 + DigitVal(c)

RECURSIVE StrLess(_, _)
StrLess(a, b) ==
    IF b = <<>> THEN FALSE
    ELSE IF a = <<>> THEN TRUE
    ELSE IF CharCode(a[1]) # CharCode(b[1])
         THEN CharCode(a[1]) < CharCode(b[1])
    ELSE StrLess(Tail(a), Tail(b))

(***************************************************************************)
(* TierValidator: the rule table.                                          *)
(*                                                                         *)
(* tier_defaults_ is a std::map<std::string, std::vector<std::string>>.    *)
(* It is modelled as the sequence of its entries [tier, commands] in key   *)
(* order, which is the order in which get_tier iterates over it.           *)
(***************************************************************************)
\* A default-constructed std::map.
EmptyMap == <<>>

MapHas(m, k) == \E i \in 1..Len(m) : m[i].tier = k

\* m[k] = v of std::map: overwrite the entry of key k, or insert it at its
\* place in key order.
MapPut(m, k, v) ==
    IF MapHas(m, k)
    THEN [i \in 1..Len(m) |->
             IF m[i].tier = k THEN [tier |-> k, commands |-> v] ELSE m[i]]
    ELSE LET below == Cardinality({i \in 1..Len(m) : StrLess(m[i].tier, k)})
         IN SubSeq(m, 1, below) \o <<[tier |-> k, commands |-> v]>>
               \o SubSeq(m, below + 1, Len(m))

\* The initializer list of load_hardcoded_defaults, in source order.
HardcodedList ==
    <<
       [tier |-> <<"1">>,   \* "1"
        commands |-> <<
          <<"l","s">>,   \* "ls"
          <<"c","d">>,   \* "cd"
          <<"c","l","e","a","r">>,   \* "clear"
          <<"c","l","s">>,   \* "cls"
          <<"p","w","d">>,   \* "pwd"
          <<"e","c","h","o">>,   \* "echo"
          <<"c","a","t">>,   \* "cat"
          <<"t","y","p","e">>,   \* "type"
          <<"G","e","t","-","C","h","i","l","d","I","t","e","m">>,   \* "Get-ChildItem"
          <<"S","e","t","-","L","o","c","a","t","i","o","n">>,   \* "Set-Location"
          <<"G","e","t","-","L","o","c","a","t","i","o","n">>   \* "Get-Location"
        >>],
       [tier |-> <<"2">>,   \* "2"
        commands |-> <<
          <<"g","r","e","p">>,   \* "grep"
          <<"S","e","l","e","c","t","-","S","t","r","i","n","g">>,   \* "Select-String"
          <<"h","e","a","d">>,   \* "head"
          <<"t","a","i","l">>,   \* "tail"
          <<"s","o","r","t">>,   \* "sort"
          <<"u","n","i","q">>   \* "uniq"
        >>],
       [tier |-> <<"2", ".", "5">>,   \* "2.5"
        commands |-> <<
          <<"f","i","n","d">>,   \* "find"
          <<"s","e","d">>,   \* "sed"
          <<"a","w","k">>,   \* "awk"
          <<"W","h","e","r","e","-","O","b","j","e","c","t">>,   \* "Where-Object"
          <<"F","o","r","E","a","c","h","-","O","b","j","e","c","t">>   \* "ForEach-Object"
        >>],
       [tier |-> <<"3">>,   \* "3"
        commands |-> <<
          <<"c","p">>,   \* "cp"
          <<"m","v">>,   \* "mv"
          <<"g","i","t">>,   \* "git"
          <<"n","p","m">>,   \* "npm"
          <<"p","i","p">>,   \* "pip"
          <<"r","e","s","e","t">>,   \* "reset"
          <<"C","o","p","y","-","I","t","e","m">>,   \* "Copy-Item"
          <<"M","o","v","e","-","I","t","e","m">>,   \* "Move-Item"
          <<"N","e","w","-","I","t","e","m">>,   \* "New-Item"
          <<"R","e","m","o","v","e","-","I","t","e","m">>   \* "Remove-Item"
        >>],
       [tier |-> <<"4">>,   \* "4"
        commands |-> <<
          <<"r","m">>,   \* "rm"
          <<"d","e","l">>,   \* "del"
          <<"f","o","r","m","a","t">>,   \* "format"
          <<"d","d">>,   \* "dd"
          <<"R","e","m","o","v","e","-","I","t","e","m">>,   \* "Remove-Item"
          <<"F","o","r","m","a","t","-","V","o","l","u","m","e">>,   \* "Format-Volume"
          <<"C","l","e","a","r","-","D","i","s","k">>   \* "Clear-Disk"
        >>]
    >>

\* Construction of a std::map from an initializer list: the entries are
\* inserted one by one; a key that is already present is not inserted again.
RECURSIVE MapFromList(_, _)
MapFromList(list, m) ==
    IF list = <<>> THEN m
    ELSE MapFromList(Tail(list),
                     IF MapHas(m, Head(list).tier) THEN m
                     ELSE MapPut(m, Head(list).tier, Head(list).commands))

\* tier_defaults_ = { ... }: the assignment replaces whatever the table held.
load_hardcoded_defaults(table) == MapFromList(HardcodedList, EmptyMap)

(***************************************************************************)
(* TierValidator::parse_json: the two regular expressions, evaluated as    *)
(* std::regex_search (ECMAScript grammar) evaluates them: leftmost match,  *)
(* greedy \d+ and \s*, lazy .*? and '.' not matching a line terminator.    *)
(*   tier_regex   "(\d+(?:\.\d+)?)":\s*\[(.*?)\]"                          *)
(*   cmd_regex    "([^"]+)"                                                *)
(***************************************************************************)
LineTerminators == {"\n", "\r"}

\* First position at or after i that does not hold a digit.
RECURSIVE DigitsEnd(_, _)
DigitsEnd(s, i) ==
    IF i > Len(s) \/ ~IsDigit(s[i]) THEN i ELSE DigitsEnd(s, i + 1)

\* \d+(?:\.\d+)? starting at position i: the position after the label, or
\* npos.  The optional group is taken when a '.' and a digit follow.
LabelEnd(s, i) ==
    LET d1 == DigitsEnd(s, i) IN
    IF d1 = i THEN npos
    ELSE IF d1 < Len(s) /\ s[d1] = "." /\ IsDigit(s[d1 + 1])
         THEN DigitsEnd(s, d1 + 1)
    ELSE d1

\* (.*?)\]" starting at position k: the position of the closing ']' of the
\* shortest match, or npos.
RECURSIVE LazyClose(_, _)
LazyClose(s, k) ==
    IF k + 1 > Len(s) THEN npos
    ELSE IF s[k] = "]" /\ s[k + 1] = QUOTE THEN k
    ELSE IF s[k] \in LineTerminators THEN npos
    ELSE LazyClose(s, k + 1)

NoMatch == [ok |-> FALSE, tier |-> <<>>, commands_str |-> <<>>, next |-> 0]

\* tier_regex anchored at position i.
TierMatchAt(s, i) ==
    IF i > Len(s) \/ s[i] # QUOTE THEN NoMatch
    ELSE LET e == LabelEnd(s, i + 1) IN
    IF e = npos \/ e + 1 > Len(s) \/ s[e] # QUOTE \/ s[e + 1] # ":"
    THEN NoMatch
    ELSE LET b == SkipSpace(s, e + 2) IN
    IF b > Len(s) \/ s[b] # "[" THEN NoMatch
    ELSE LET c == LazyClose(s, b + 1) IN
    IF c = npos THEN NoMatch
    ELSE [ok |-> TRUE,
          tier |-> SubSeq(s, i + 1, e - 1),
          commands_str |-> SubSeq(s, b + 1, c - 1),
          next |-> c + 2]

\* std::regex_search(search_start, end, match, tier_regex)
RECURSIVE TierSearch(_, _)
TierSearch(s, from) ==
    IF from > Len(s) THEN NoMatch
    ELSE IF TierMatchAt(s, from).ok THEN TierMatchAt(s, from)
    ELSE TierSearch(s, from + 1)

\* The inner loop of parse_json: every match of cmd_regex in commands_str.
RECURSIVE ParseCommands(_, _)
ParseCommands(s, from) ==
    IF from > Len(s) THEN <<>>
    ELSE LET q == IF s[from] = QUOTE THEN FindChar(s, QUOTE, from + 1)
                  ELSE npos
         IN IF q > from + 1
            THEN <<SubSeq(s, from + 1, q - 1)>> \o ParseCommands(s, q + 1)
            ELSE ParseCommands(s, from + 1)

\* The outer loop of parse_json.  fault = k > 0 makes the k-th search raise
\* an exception (std::regex_error, std::bad_alloc), after k - 1 entries
\* have been stored; fault = 0 is a run without exception.
RECURSIVE parse_json(_, _, _, _, _)
parse_json(json_content, search_start, table, fault, n) ==
    IF fault = n THEN [threw |-> TRUE, table |-> table]
    ELSE LET match == TierSearch(json_content, search_start) IN
    IF ~match.ok THEN [threw |-> FALSE, table |-> table]
    ELSE parse_json(json_content, match.next,
                    MapPut(table, match.tier,
                           ParseCommands(match.commands_str, 1)),
                    fault, n + 1)

\* The external rule resource "../isaac/data/tier_defaults.json".
NoFile == [open |-> FALSE, content |-> <<>>, fault |-> 0]

RuleFile(content, fault) == [open |-> TRUE, content |-> content, fault |-> fault]

\* load_from_file: [ok, table]; ok is the bool it returns.
load_from_file(file, table) ==
    IF ~file.open THEN [ok |-> FALSE, table |-> table]
    ELSE LET r == parse_json(file.content, 1, table, file.fault, 1) IN
         [ok |-> ~r.threw, table |-> r.table]

\* load_tier_defaults, called by the constructor on the empty table.
load_tier_defaults(file) ==
    LET r == load_from_file(file, EmptyMap) IN
    IF ~r.ok THEN load_hardcoded_defaults(r.table) ELSE r.table


(***************************************************************************)
(* TierValidator::get_tier.  A tier is the float the code returns, kept    *)
(* exactly as the fraction n/d (2.5 is 25/10); threw is TRUE when the call *)
(* leaves by an exception instead of returning.                            *)
(***************************************************************************)
Tier(n, d) == [threw |-> FALSE, n |-> n, d |-> d]

TierThrow == [threw |-> TRUE, n |-> 0, d |-> 1]

\* Comparisons of a returned tier with a float literal k/kd.
TierGE(t, k, kd) == t.n * kd >= k * t.d

TierEQ(t, k, kd) == t.n * kd = k * t.d

TierLE(t, k, kd) == t.n * kd <= k * t.d

\* A float holds values up to FLT_MAX = 3.4028235e38: a decimal integer of
\* more than 39 significant digits is out of its range.  (The labels of the
\* model's rule resources have one digit or 41: none lies between FLT_MAX
\* and 10^39.)
FloatMaxDigits == 39

RECURSIVE DropZeros(_)
DropZeros(s) == IF s # <<>> /\ s[1] = "0" THEN DropZeros(Tail(s)) ELSE s

RECURSIVE DecimalValue(_)
DecimalValue(s) ==
    IF s = <<>> THEN 0
    ELSE 10 * DecimalValue(SubSeq(s, 1, Len(s) - 1)) + DigitVal(s[Len(s)])

RECURSIVE Pow10(_)
Pow10(k) == IF k = 0 THEN 1 ELSE 10 * Pow10(k - 1)

\* std::stof on a map key.  Every key has the form \d+(\.\d+)? (the
\* hardcoded keys and the keys tier_regex captures), so the conversion
\* always consumes the whole key; it raises std::out_of_range when the
\* value does not fit a float.
stof(str) ==
    LET dot == FindChar(str, ".", 1)
        ip  == IF dot = npos THEN str ELSE SubSeq(str, 1, dot - 1)
        fp  == IF dot = npos THEN <<>> ELSE SubSeq(str, dot + 1, Len(str))
    IN IF Len(DropZeros(ip)) > FloatMaxDigits THEN TierThrow
       ELSE Tier(DecimalValue(ip \o fp), Pow10(Len(fp)))

\* The inner loop of get_tier over one entry's commands.
MatchesAny(commands, base_cmd) ==
    \E i \in 1..Len(commands) : base_cmd = ToLowerStr(commands[i])

\* The outer loop of get_tier over the entries, in key order.
RECURSIVE ScanTiers(_, _, _)
ScanTiers(table, i, base_cmd) ==
    IF i > Len(table) THEN Tier(3, 1)
    ELSE IF MatchesAny(table[i].commands, base_cmd) THEN stof(table[i].tier)
    ELSE ScanTiers(table, i + 1, base_cmd)

get_tier_NoFold(table, command) ==
    IF command = <<>> \/ \A i \in 1..Len(command) : isspace(command[i])
    THEN Tier(3, 1)
    ELSE ScanTiers(table, 1, Word(command, 1))

get_tier(table, command) ==
    IF command = <<>> \/ \A i \in 1..Len(command) : isspace(command[i])
    THEN Tier(3, 1)
    ELSE ScanTiers(table, 1, ToLowerStr(Word(command, 1)))

\* is_safe, requires_confirmation, requires_validation (an exception of
\* get_tier leaves them too).
is_safe(table, command) ==
    LET tier == get_tier(table, command) IN
    [threw |-> tier.threw, value |-> ~tier.threw /\ TierLE(tier, 2, 1)]

requires_confirmation(table, command) ==
    LET tier == get_tier(table, command) IN
    [threw |-> tier.threw, value |-> ~tier.threw /\ TierEQ(tier, 25, 10)]

requires_validation(table, command) ==
    LET tier == get_tier(table, command) IN
    [threw |-> tier.threw, value |-> ~tier.threw /\ TierGE(tier, 3, 1)]

\* The empty text.
F_empty == <<>>
\* The text: {"4":["rm"]}
F_json == <<"{", "\"", "4", "\"", ":", "[", "\"", "r", "m", "\"", "]", "}">>
\* The text: {\n "1": ["ls"],\n "4": ["rm"]\n}
F_json_lines ==
    <<"{", "\n", " ", "\"", "1", "\"", ":", " ", "[", "\"", "l", "s", "\"",
      "]", ",", "\n", " ", "\"", "4", "\"", ":", " ", "[", "\"", "r", "m",
      "\"", "]", "\n", "}">>
\* The text: "4":["rm"]"
F_one == <<"\"", "4", "\"", ":", "[", "\"", "r", "m", "\"", "]", "\"">>
\* The text: "1":["ls"]""4": ["rm","dd"]"
F_two ==
    <<"\"", "1", "\"", ":", "[", "\"", "l", "s", "\"", "]", "\"", "\"", "4",
      "\"", ":", " ", "[", "\"", "r", "m", "\"", ",", "\"", "d", "d", "\"",
      "]", "\"">>
\* The text: "5":["x"]"
F_tier5 == <<"\"", "5", "\"", ":", "[", "\"", "x", "\"", "]", "\"">>
\* The text: "10000000000000000000000000000000000000000":["x"]"
F_huge ==
    <<"\"", "1", "0", "0", "0", "0", "0", "0", "0", "0", "0", "0", "0", "0",
      "0", "0", "0", "0", "0", "0", "0", "0", "0", "0", "0", "0", "0", "0",
      "0", "0", "0", "0", "0", "0", "0", "0", "0", "0", "0", "0", "0", "0",
      "\"", ":", "[", "\"", "x", "\"", "]", "\"">>
\* The text: "2.2":["x"]"
F_tier22 ==
    <<"\"", "2", ".", "2", "\"", ":", "[", "\"", "x", "\"", "]", "\"">>
\* The text: tiers
F_garbage == <<"t", "i", "e", "r", "s">>
\* The empty text.
I_empty == <<>>
\* The text: <space><space>
I_blank == <<" ", " ">>
\* The text: ls
I_ls == <<"l", "s">>
\* The text: LS -l
I_LS_l == <<"L", "S", " ", "-", "l">>
\* The text: grep x
I_grep_x == <<"g", "r", "e", "p", " ", "x">>
\* The text: find .
I_find_dot == <<"f", "i", "n", "d", " ", ".">>
\* The text: git status
I_git_status == <<"g", "i", "t", " ", "s", "t", "a", "t", "u", "s">>
\* The text: rm -rf /
I_rm_rf == <<"r", "m", " ", "-", "r", "f", " ", "/">>
\* The text:  rm
I_sp_rm == <<" ", "r", "m">>
\* The text: Remove-Item a
I_Remove_Item ==
    <<"R", "e", "m", "o", "v", "e", "-", "I", "t", "e", "m", " ", "a">>
\* The text: x
I_x == <<"x">>
\* The text: rm a|b
I_rm_pipe == <<"r", "m", " ", "a", "|", "b">>
\* The text: ls | grep x
I_ls_pipe == <<"l", "s", " ", "|", " ", "g", "r", "e", "p", " ", "x">>
\* The text: !a|b
I_bang_pipe == <<"!", "a", "|", "b">>
\* The text: cd
I_cd == <<"c", "d">>
\* The text: cd /tmp
I_cd_tmp == <<"c", "d", " ", "/", "t", "m", "p">>
\* The text: cd 
I_cd_sp == <<"c", "d", " ">>
\* The text: cdx
I_cdx == <<"c", "d", "x">>
\* The text: !
I_bang == <<"!">>
\* The text: !rm -rf /
I_bang_rm == <<"!", "r", "m", " ", "-", "r", "f", " ", "/">>
\* The text: ! ls
I_bang_sp_ls == <<"!", " ", "l", "s">>
\* The text: !local /ls
I_bang_local == <<"!", "l", "o", "c", "a", "l", " ", "/", "l", "s">>
\* The text: exit
I_exit == <<"e", "x", "i", "t">>
\* The text: QUIT
I_QUIT == <<"Q", "U", "I", "T">>
\* The text: q
I_q == <<"q">>
\* The text: /q
I_slash_q == <<"/", "q">>
\* The text: exit now
I_exit_now == <<"e", "x", "i", "t", " ", "n", "o", "w">>
\* The text: /config
I_config == <<"/", "c", "o", "n", "f", "i", "g">>
\* The text: /config set foo bar
I_config_set_foo_bar ==
    <<"/", "c", "o", "n", "f", "i", "g", " ", "s", "e", "t", " ", "f", "o",
      "o", " ", "b", "a", "r">>
\* The text: /config set foo
I_config_set_foo ==
    <<"/", "c", "o", "n", "f", "i", "g", " ", "s", "e", "t", " ", "f", "o",
      "o">>
\* The text: /config get foo
I_config_get_foo ==
    <<"/", "c", "o", "n", "f", "i", "g", " ", "g", "e", "t", " ", "f", "o",
      "o">>
\* The text: /config get
I_config_get == <<"/", "c", "o", "n", "f", "i", "g", " ", "g", "e", "t">>
\* The text: /config list
I_config_list ==
    <<"/", "c", "o", "n", "f", "i", "g", " ", "l", "i", "s", "t">>
\* The text: /config status
I_config_status ==
    <<"/", "c", "o", "n", "f", "i", "g", " ", "s", "t", "a", "t", "u", "s">>
\* The text: /config bogus
I_config_bogus ==
    <<"/", "c", "o", "n", "f", "i", "g", " ", "b", "o", "g", "u", "s">>
\* The text: isaac task:
I_task == <<"i", "s", "a", "a", "c", " ", "t", "a", "s", "k", ":">>
\* The text: isaac task: write tests
I_task_write ==
    <<"i", "s", "a", "a", "c", " ", "t", "a", "s", "k", ":", " ", "w", "r",
      "i", "t", "e", " ", "t", "e", "s", "t", "s">>
\* The text: isaac agent:
I_agent == <<"i", "s", "a", "a", "c", " ", "a", "g", "e", "n", "t", ":">>
\* The text: isaac agentic: go
I_agentic_go ==
    <<"i", "s", "a", "a", "c", " ", "a", "g", "e", "n", "t", "i", "c", ":",
      " ", "g", "o">>
\* The text: isaac hello
I_isaac_hello == <<"i", "s", "a", "a", "c", " ", "h", "e", "l", "l", "o">>
\* The text: ISAAC
I_ISAAC == <<"I", "S", "A", "A", "C">>
\* The text: /help
I_help == <<"/", "h", "e", "l", "p">>
\* The text: /HELP
I_HELP == <<"/", "H", "E", "L", "P">>
\* The text: /status
I_status == <<"/", "s", "t", "a", "t", "u", "s">>
\* The text: /foo
I_slash_foo == <<"/", "f", "o", "o">>
\* The text: GREP -r x
I_GREP_r == <<"G", "R", "E", "P", " ", "-", "r", " ", "x">>
\* The text: Find .
I_Find_dot == <<"F", "i", "n", "d", " ", ".">>
\* The text: Rm -f x
I_Rm_f == <<"R", "m", " ", "-", "f", " ", "x">>
\* The text: GIT
I_GIT == <<"G", "I", "T">>
\* The text: \tls\t-l
I_tab_ls == <<"\t", "l", "s", "\t", "-", "l">>
\* The text: cd  a b
I_cd_a_b == <<"c", "d", " ", " ", "a", " ", "b">>
\* The text: /Quit
I_slash_Quit == <<"/", "Q", "u", "i", "t">>
\* The text: /exit
I_slash_exit == <<"/", "e", "x", "i", "t">>
S_cd_sp == <<"c", "d", " ">>
S_status == <<"s", "t", "a", "t", "u", "s">>
(***************************************************************************)
(* CommandResult and its output text.  An output is a sequence of chunks,  *)
(* each one a literal of the source (lit) or a piece of text computed from *)
(* the input or produced by the shell (txt); it is the empty string        *)
(* exactly when it is the empty sequence.                                  *)
(***************************************************************************)
Lit(s) == <<[lit |-> s, txt |-> <<>>]>>

Txt(t) == IF t = <<>> THEN <<>> ELSE <<[lit |-> "", txt |-> t]>>

CommandResult(success, output, exit_code) ==
    [success |-> success, output |-> output, exit_code |-> exit_code]

(***************************************************************************)
(* ShellAdapter::execute as the router sees it.  What the spawned command  *)
(* does is the environment's choice sh: popen may fail (spawned = FALSE),  *)
(* otherwise the command prints sh.out and exits with status sh.code.      *)
(***************************************************************************)
ShellOutcomes ==
    { [spawned |-> FALSE, out |-> <<>>, code |-> 0],
      [spawned |-> TRUE, out |-> <<"o", "k">>, code |-> 0],
      [spawned |-> TRUE, out |-> <<>>, code |-> 1] }

\* shell_execute with success = true for every command that was spawned,
\* whatever its exit code.
shell_execute_SuccessOnSpawn(command, sh) ==
    IF ~sh.spawned
    THEN CommandResult(FALSE, Lit("Isaac > Failed to execute command"), -1)
    ELSE CommandResult(TRUE, Txt(sh.out), sh.code)

shell_execute(command, sh) ==
    IF ~sh.spawned
    THEN CommandResult(FALSE, Lit("Isaac > Failed to execute command"), -1)
    ELSE CommandResult(sh.code = 0, Txt(sh.out), sh.code)

(***************************************************************************)
(* The strategies.                                                         *)
(***************************************************************************)
\* The initializer list of load_strategies, in source order.
Registration ==
    << "PipeStrategy", "CdStrategy", "ForceExecutionStrategy",
       "ExitQuitStrategy", "ConfigStrategy", "DeviceRoutingStrategy",
       "ExitBlockerStrategy", "TaskModeStrategy", "AgenticModeStrategy",
       "MetaCommandStrategy", "NaturalLanguageStrategy", "UnixAliasStrategy",
       "TierExecutionStrategy" >>

Strategies == {Registration[i] : i \in 1..Len(Registration)}

\* get_priority with PipeStrategy constructed with priority 30 instead of 10.
get_priority_PipeLate(st) ==
    CASE st = "PipeStrategy"            -> 30
      [] st = "CdStrategy"              -> 15
      [] st = "ForceExecutionStrategy"  -> 20
      [] st = "ExitQuitStrategy"        -> 25
      [] st = "ConfigStrategy"          -> 35
      [] st = "DeviceRoutingStrategy"   -> 40
      [] st = "ExitBlockerStrategy"     -> 40
      [] st = "TaskModeStrategy"        -> 45
      [] st = "AgenticModeStrategy"     -> 48
      [] st = "MetaCommandStrategy"     -> 50
      [] st = "NaturalLanguageStrategy" -> 55
      [] st = "UnixAliasStrategy"       -> 60
      [] st = "TierExecutionStrategy"   -> 100

\* The priority each constructor passes to BaseStrategy.
\* The priorities with NaturalLanguageStrategy constructed with 40.
get_priority_NaturalLanguageEarly(st) ==
    CASE st = "PipeStrategy"            -> 10
      [] st = "CdStrategy"              -> 15
      [] st = "ForceExecutionStrategy"  -> 20
      [] st = "ExitQuitStrategy"        -> 25
      [] st = "ConfigStrategy"          -> 35
      [] st = "DeviceRoutingStrategy"   -> 40
      [] st = "ExitBlockerStrategy"     -> 40
      [] st = "TaskModeStrategy"        -> 45
      [] st = "AgenticModeStrategy"     -> 48
      [] st = "MetaCommandStrategy"     -> 50
      [] st = "NaturalLanguageStrategy" -> 40
      [] st = "UnixAliasStrategy"       -> 60
      [] st = "TierExecutionStrategy"   -> 100

\* The priorities with ExitQuitStrategy constructed with 52.
get_priority_ExitQuitLate(st) ==
    CASE st = "PipeStrategy"            -> 10
      [] st = "CdStrategy"              -> 15
      [] st = "ForceExecutionStrategy"  -> 20
      [] st = "ExitQuitStrategy"        -> 52
      [] st = "ConfigStrategy"          -> 35
      [] st = "DeviceRoutingStrategy"   -> 40
      [] st = "ExitBlockerStrategy"     -> 40
      [] st = "TaskModeStrategy"        -> 45
      [] st = "AgenticModeStrategy"     -> 48
      [] st = "MetaCommandStrategy"     -> 50
      [] st = "NaturalLanguageStrategy" -> 55
      [] st = "UnixAliasStrategy"       -> 60
      [] st = "TierExecutionStrategy"   -> 100

get_priority(st) ==
    CASE st = "PipeStrategy"            -> 10
      [] st = "CdStrategy"              -> 15
      [] st = "ForceExecutionStrategy"  -> 20
      [] st = "ExitQuitStrategy"        -> 25
      [] st = "ConfigStrategy"          -> 35
      [] st = "DeviceRoutingStrategy"   -> 40
      [] st = "ExitBlockerStrategy"     -> 40
      [] st = "TaskModeStrategy"        -> 45
      [] st = "AgenticModeStrategy"     -> 48
      [] st = "MetaCommandStrategy"     -> 50
      [] st = "NaturalLanguageStrategy" -> 55
      [] st = "UnixAliasStrategy"       -> 60
      [] st = "TierExecutionStrategy"   -> 100

can_handle(st, input) ==
    CASE st = "PipeStrategy" -> FindChar(input, "|", 1) # npos
      [] st = "CdStrategy" ->
            StartsWith(input, S_cd_sp) \/ input = <<"c", "d">>
      [] st = "ForceExecutionStrategy" -> input # <<>> /\ input[1] = "!"
      [] st = "ExitQuitStrategy" ->
            LET lower == ToLowerStr(input) IN
            \/ lower = <<"e", "x", "i", "t">>
            \/ lower = <<"q", "u", "i", "t">>
            \/ lower = <<"q">>
            \/ lower = <<"/", "e", "x", "i", "t">>
            \/ lower = <<"/", "q", "u", "i", "t">>
            \/ lower = <<"/", "q">>
      [] st = "ConfigStrategy" ->
            StartsWith(input, <<"/", "c", "o", "n", "f", "i", "g">>)
      [] st = "DeviceRoutingStrategy" -> input # <<>> /\ input[1] = "!"
      [] st = "ExitBlockerStrategy" -> FALSE
      [] st = "TaskModeStrategy" ->
            StartsWith(input, <<"i", "s", "a", "a", "c", " ",
                                "t", "a", "s", "k", ":">>)
      [] st = "AgenticModeStrategy" ->
            \/ StartsWith(input, <<"i", "s", "a", "a", "c", " ",
                                   "a", "g", "e", "n", "t", ":">>)
            \/ StartsWith(input, <<"i", "s", "a", "a", "c", " ",
                                   "a", "g", "e", "n", "t", "i", "c", ":">>)
      [] st = "MetaCommandStrategy" -> input # <<>> /\ input[1] = "/"
      [] st = "NaturalLanguageStrategy" ->
            StartsWith(ToLowerStr(input), <<"i", "s", "a", "a", "c">>)
      [] st = "UnixAliasStrategy" -> FALSE
      [] st = "TierExecutionStrategy" -> TRUE

\* CommandStrategy::get_help and its overrides.
\* get_help with ExitBlockerStrategy given a help text of its own.
strategy_help_ExitBlockerListed(st) ==
    CASE st = "PipeStrategy" -> "Pipe commands: cmd1 | cmd2"
      [] st = "CdStrategy" -> "Change directory: cd <path>"
      [] st = "ForceExecutionStrategy" -> "Force execute: !command"
      [] st = "ExitQuitStrategy" -> "Exit shell: exit, quit, q"
      [] st = "ConfigStrategy" ->
            "Configuration commands: /config set/get/list"
      [] st = "DeviceRoutingStrategy" -> "Device routing: !device command"
      [] st = "ExitBlockerStrategy" -> "Exit blocker"
      [] st = "TaskModeStrategy" -> "Task mode: isaac task: <description>"
      [] st = "AgenticModeStrategy" -> "Agentic mode: isaac agent: <query>"
      [] st = "MetaCommandStrategy" -> "Meta commands: /help, /status, etc."
      [] st = "NaturalLanguageStrategy" -> "AI queries: isaac <question>"
      [] st = "UnixAliasStrategy" -> ""
      [] st = "TierExecutionStrategy" ->
            "Shell commands with safety validation"

strategy_help(st) ==
    CASE st = "PipeStrategy" -> "Pipe commands: cmd1 | cmd2"
      [] st = "CdStrategy" -> "Change directory: cd <path>"
      [] st = "ForceExecutionStrategy" -> "Force execute: !command"
      [] st = "ExitQuitStrategy" -> "Exit shell: exit, quit, q"
      [] st = "ConfigStrategy" ->
            "Configuration commands: /config set/get/list"
      [] st = "DeviceRoutingStrategy" -> "Device routing: !device command"
      [] st = "ExitBlockerStrategy" -> ""
      [] st = "TaskModeStrategy" -> "Task mode: isaac task: <description>"
      [] st = "AgenticModeStrategy" -> "Agentic mode: isaac agent: <query>"
      [] st = "MetaCommandStrategy" -> "Meta commands: /help, /status, etc."
      [] st = "NaturalLanguageStrategy" -> "AI queries: isaac <question>"
      [] st = "UnixAliasStrategy" -> ""
      [] st = "TierExecutionStrategy" ->
            "Shell commands with safety validation"

\* The loop of CommandRouter::get_help over strategies_ from position i.
RECURSIVE HelpLines(_, _)
HelpLines(strategies, i) ==
    IF i > Len(strategies) THEN <<>>
    ELSE LET strategy_help_ == strategy_help(strategies[i]) IN
         (IF strategy_help_ # ""
          THEN Lit("  * ") \o Lit(strategy_help_) \o Lit("\n")
          ELSE <<>>)
         \o HelpLines(strategies, i + 1)

\* CommandRouter::get_help: it reads strategies_ as it is and does not load
\* it.  ("  * " stands for the bullet of the source.)
get_help(strategies) ==
    Lit("Isaac Command Router - Available command types:\n")
       \o HelpLines(strategies, 1)

(***************************************************************************)
(* The execute methods.  Each yields what the call did: whether it left by *)
(* an exception (threw), the CommandResult it returned, the commands it    *)
(* passed to the shell executor (shell) and whether it asked the tier      *)
(* classifier (classified).  sh is the shell's behaviour if it is invoked, *)
(* table the validator's rule table, strategies the router's list.         *)
(***************************************************************************)
\* A default-constructed CommandResult: what the model records while no
\* result has been returned.
NoResult == CommandResult(FALSE, <<>>, -1)

Returned(result, shell, classified) ==
    [threw |-> FALSE, result |-> result, shell |-> shell,
     classified |-> classified]

Thrown(shell, classified) ==
    [threw |-> TRUE, result |-> NoResult, shell |-> shell,
     classified |-> classified]

PipeStrategy_execute(input, sh) ==
    Returned(shell_execute(input, sh), <<input>>, FALSE)

\* CdStrategy::execute without the default directory.
CdStrategy_execute_NoDefault(input, sh) ==
    LET dir == Word(input, 2)
    IN Returned(shell_execute(S_cd_sp \o dir, sh), <<S_cd_sp \o dir>>, FALSE)

CdStrategy_execute(input, sh) ==
    LET dir0 == Word(input, 2)
        dir  == IF dir0 = <<>> THEN <<"~">> ELSE dir0
    IN Returned(shell_execute(S_cd_sp \o dir, sh), <<S_cd_sp \o dir>>, FALSE)

\* ForceExecutionStrategy::execute without the erase of leading white space.
ForceExecutionStrategy_execute_NoTrim(input, sh) ==
    LET command == substr(input, 1) IN
    Returned(shell_execute(command, sh), <<command>>, FALSE)

ForceExecutionStrategy_execute(input, sh) ==
    LET command == LTrim(substr(input, 1)) IN
    Returned(shell_execute(command, sh), <<command>>, FALSE)

ExitQuitStrategy_execute(input) ==
    Returned(CommandResult(TRUE, Lit("Isaac > Goodbye!"), 0), <<>>, FALSE)

MetaCommandStrategy_execute(input, strategies) ==
    LET command == ToLowerStr(LTrim(substr(input, 1))) IN
    IF command = <<"h", "e", "l", "p">>
    THEN Returned(CommandResult(TRUE, get_help(strategies), 0), <<>>, FALSE)
    ELSE IF command = S_status
    THEN Returned(CommandResult(TRUE,
                      Lit("Isaac > System status: C++ core active"), 0),
                  <<>>, FALSE)
    ELSE Returned(CommandResult(FALSE,
                      Lit("Isaac > Unknown meta command: ") \o Txt(command),
                      -1),
                  <<>>, FALSE)

NaturalLanguageStrategy_execute(input) ==
    LET query == LTrim(substr(input, 5)) IN
    Returned(CommandResult(TRUE,
                 Lit("Isaac > AI query: ") \o Txt(query)
                    \o Lit(" (C++ processing)"), 0),
             <<>>, FALSE)

\* TierExecutionStrategy::execute with the annotation put after the shell's
\* output instead of before it.
TierExecutionStrategy_execute_Appended(input, table, sh) ==
    LET tier == get_tier(table, input) IN
    IF tier.threw THEN Thrown(<<>>, TRUE)
    ELSE IF TierGE(tier, 4, 1)
    THEN Returned(CommandResult(FALSE,
                      Lit("Isaac > Command blocked (Tier 4 - lockdown)"), -1),
                  <<>>, TRUE)
    ELSE IF TierGE(tier, 3, 1)
    THEN LET result == shell_execute(input, sh) IN
         Returned([result EXCEPT !.output =
                      @ \o Lit("Isaac > Warning: Tier 3 command executed\n")],
                  <<input>>, TRUE)
    ELSE IF TierEQ(tier, 25, 10)
    THEN LET result == shell_execute(input, sh) IN
         Returned([result EXCEPT !.output =
                      @ \o Lit("Isaac > Confirmation required for Tier 2.5 command\n")],
                  <<input>>, TRUE)
    ELSE Returned(shell_execute(input, sh), <<input>>, TRUE)

TierExecutionStrategy_execute(input, table, sh) ==
    LET tier == get_tier(table, input) IN
    IF tier.threw THEN Thrown(<<>>, TRUE)
    ELSE IF TierGE(tier, 4, 1)
    THEN Returned(CommandResult(FALSE,
                      Lit("Isaac > Command blocked (Tier 4 - lockdown)"), -1),
                  <<>>, TRUE)
    ELSE IF TierGE(tier, 3, 1)
    THEN LET result == shell_execute(input, sh) IN
         Returned([result EXCEPT !.output =
                      Lit("Isaac > Warning: Tier 3 command executed\n") \o @],
                  <<input>>, TRUE)
    ELSE IF TierEQ(tier, 25, 10)
    THEN LET result == shell_execute(input, sh) IN
         Returned([result EXCEPT !.output =
                      Lit("Isaac > Confirmation required for Tier 2.5 command\n")
                         \o @],
                  <<input>>, TRUE)
    ELSE Returned(shell_execute(input, sh), <<input>>, TRUE)

\* ConfigStrategy::execute with get asking for as many arguments as set.
ConfigStrategy_execute_GetNeedsTwo(input) ==
    LET words == Tokens(input, 1)
        args  == IF words = <<>> THEN <<>> ELSE Tail(words)
    IN
    IF args = <<>>
    THEN Returned(CommandResult(TRUE,
             Lit("Isaac > Configuration overview\nAvailable commands:\n  /config set <key> <value>\n  /config get <key>\n  /config list\n  /config status\n\nC++ ConfigStrategy implementation active"),
             0), <<>>, FALSE)
    ELSE LET subcommand == args[1] IN
    IF subcommand = <<"s", "e", "t">> /\ Len(args) >= 3
    THEN Returned(CommandResult(TRUE,
             Lit("Isaac > Config set (C++): ") \o Txt(args[2]) \o Lit(" = ")
                \o Txt(args[3])
                \o Lit("\nNote: Full persistence requires Python config integration"),
             0), <<>>, FALSE)
    ELSE IF subcommand = <<"g", "e", "t">> /\ Len(args) >= 3
    THEN Returned(CommandResult(TRUE,
             Lit("Isaac > Config get (C++): ") \o Txt(args[2])
                \o Lit(" = <value not implemented>\nNote: Full config retrieval requires Python integration"),
             0), <<>>, FALSE)
    ELSE IF subcommand = <<"l", "i", "s", "t">>
    THEN Returned(CommandResult(TRUE,
             Lit("Isaac > Available config keys (C++ implementation):\n  machine_id\n  api_keys\n  preferences\n  cloud_settings\n\nNote: Full listing requires Python config integration"),
             0), <<>>, FALSE)
    ELSE IF subcommand = S_status
    THEN Returned(CommandResult(TRUE,
             Lit("Isaac > Config status: C++ ConfigStrategy active\n  Implementation: Basic command parsing\n  Persistence: Not yet integrated\n  Features: set/get/list/status commands"),
             0), <<>>, FALSE)
    ELSE Returned(CommandResult(FALSE,
             Lit("Isaac > Unknown config command. Try: /config set/get/list/status\n\nC++ ConfigStrategy: Basic implementation active"),
             1), <<>>, FALSE)

ConfigStrategy_execute(input) ==
    LET words == Tokens(input, 1)
        args  == IF words = <<>> THEN <<>> ELSE Tail(words)
    IN
    IF args = <<>>
    THEN Returned(CommandResult(TRUE,
             Lit("Isaac > Configuration overview\nAvailable commands:\n  /config set <key> <value>\n  /config get <key>\n  /config list\n  /config status\n\nC++ ConfigStrategy implementation active"),
             0), <<>>, FALSE)
    ELSE LET subcommand == args[1] IN
    IF subcommand = <<"s", "e", "t">> /\ Len(args) >= 3
    THEN Returned(CommandResult(TRUE,
             Lit("Isaac > Config set (C++): ") \o Txt(args[2]) \o Lit(" = ")
                \o Txt(args[3])
                \o Lit("\nNote: Full persistence requires Python config integration"),
             0), <<>>, FALSE)
    ELSE IF subcommand = <<"g", "e", "t">> /\ Len(args) >= 2
    THEN Returned(CommandResult(TRUE,
             Lit("Isaac > Config get (C++): ") \o Txt(args[2])
                \o Lit(" = <value not implemented>\nNote: Full config retrieval requires Python integration"),
             0), <<>>, FALSE)
    ELSE IF subcommand = <<"l", "i", "s", "t">>
    THEN Returned(CommandResult(TRUE,
             Lit("Isaac > Available config keys (C++ implementation):\n  machine_id\n  api_keys\n  preferences\n  cloud_settings\n\nNote: Full listing requires Python config integration"),
             0), <<>>, FALSE)
    ELSE IF subcommand = S_status
    THEN Returned(CommandResult(TRUE,
             Lit("Isaac > Config status: C++ ConfigStrategy active\n  Implementation: Basic command parsing\n  Persistence: Not yet integrated\n  Features: set/get/list/status commands"),
             0), <<>>, FALSE)
    ELSE Returned(CommandResult(FALSE,
             Lit("Isaac > Unknown config command. Try: /config set/get/list/status\n\nC++ ConfigStrategy: Basic implementation active"),
             1), <<>>, FALSE)

DeviceRoutingStrategy_execute(input) ==
    LET space_pos == FindChar(input, " ", 2) IN
    IF space_pos = npos
    THEN Returned(CommandResult(FALSE,
             Lit("Usage: !device_alias /command\n       !device_alias:strategy /command"),
             1), <<>>, FALSE)
    ELSE LET device_spec == SubSeq(input, 2, space_pos - 1)
             device_cmd  == SubSeq(input, space_pos + 1, Len(input))
             colon_pos   == FindChar(device_spec, ":", 1)
             device_alias ==
                 IF colon_pos # npos THEN SubSeq(device_spec, 1, colon_pos - 1)
                 ELSE device_spec
             strategy_name ==
                 IF colon_pos # npos
                 THEN SubSeq(device_spec, colon_pos + 1, Len(device_spec))
                 ELSE <<"l", "e", "a", "s", "t", "_", "l", "o", "a", "d">>
         IN
         IF \/ device_alias = <<"l", "o", "c", "a", "l">>
            \/ device_alias = <<"l", "o", "c", "a", "l", "h", "o", "s", "t">>
         THEN Returned(CommandResult(TRUE,
                  Lit("Isaac > Executed locally: ") \o Txt(device_cmd)
                     \o Lit("\nNote: Full local execution requires shell adapter integration"),
                  0), <<>>, FALSE)
         ELSE IF StartsWith(device_alias, <<"g", "r", "o", "u", "p">>)
         THEN Returned(CommandResult(TRUE,
                  Lit("Isaac > Load balancing across group '")
                     \o Txt(device_alias) \o Lit("' with strategy '")
                     \o Txt(strategy_name) \o Lit("': ") \o Txt(device_cmd)
                     \o Lit("\nNote: Full group execution requires MachineRegistry integration"),
                  0), <<>>, FALSE)
         ELSE Returned(CommandResult(TRUE,
                  Lit("Isaac > Command queued for ") \o Txt(device_alias)
                     \o Lit(" (strategy: ") \o Txt(strategy_name)
                     \o Lit("): ") \o Txt(device_cmd)
                     \o Lit("\nNote: Full remote execution requires RemoteExecutor and cloud integration"),
                  0), <<>>, FALSE)

ExitBlockerStrategy_execute(input) ==
    Returned(CommandResult(FALSE,
                 Lit("Exit blocker strategy not implemented"), -1),
             <<>>, FALSE)

UnixAliasStrategy_execute(input) ==
    Returned(CommandResult(FALSE,
                 Lit("Unix alias strategy not implemented"), -1),
             <<>>, FALSE)

TaskModeStrategy_execute(input) ==
    LET task_desc == substr(input, 11) IN
    IF task_desc = <<>>
    THEN Returned(CommandResult(FALSE,
             Lit("Isaac > Task mode requires a description. Usage: isaac task: <description>"),
             1), <<>>, FALSE)
    ELSE Returned(CommandResult(FALSE,
             Lit("Isaac > Task mode not yet fully implemented in C++: ")
                \o Txt(task_desc)
                \o Lit("\nNote: Full task execution requires AI task planner integration"),
             1), <<>>, FALSE)

AgenticModeStrategy_execute(input) ==
    LET colon_pos     == FindChar(input, ":", 1)
        agentic_query == SubSeq(input, colon_pos + 1, Len(input))
    IN
    IF agentic_query = <<>>
    THEN Returned(CommandResult(FALSE,
             Lit("Isaac > Agentic mode requires a query. Usage: isaac agent: <query> or isaac agentic: <query>"),
             1), <<>>, FALSE)
    ELSE Returned(CommandResult(FALSE,
             Lit("Isaac > Agentic mode not yet fully implemented in C++: ")
                \o Txt(agentic_query)
                \o Lit("\nNote: Full agentic execution requires AgenticOrchestrator integration"),
             1), <<>>, FALSE)

\* The virtual call strategy->execute(input, context).
execute(st, input, table, sh, strategies) ==
    CASE st = "PipeStrategy" -> PipeStrategy_execute(input, sh)
      [] st = "CdStrategy" -> CdStrategy_execute(input, sh)
      [] st = "ForceExecutionStrategy" ->
            ForceExecutionStrategy_execute(input, sh)
      [] st = "ExitQuitStrategy" -> ExitQuitStrategy_execute(input)
      [] st = "ConfigStrategy" -> ConfigStrategy_execute(input)
      [] st = "DeviceRoutingStrategy" -> DeviceRoutingStrategy_execute(input)
      [] st = "ExitBlockerStrategy" -> ExitBlockerStrategy_execute(input)
      [] st = "TaskModeStrategy" -> TaskModeStrategy_execute(input)
      [] st = "AgenticModeStrategy" -> AgenticModeStrategy_execute(input)
      [] st = "MetaCommandStrategy" ->
            MetaCommandStrategy_execute(input, strategies)
      [] st = "NaturalLanguageStrategy" ->
            NaturalLanguageStrategy_execute(input)
      [] st = "UnixAliasStrategy" -> UnixAliasStrategy_execute(input)
      [] st = "TierExecutionStrategy" ->
            TierExecutionStrategy_execute(input, table, sh)

(***************************************************************************)
(* CommandRouter.                                                          *)
(***************************************************************************)
Range(list) == {list[i] : i \in 1..Len(list)}

\* std::sort with the comparator a->get_priority() < b->get_priority().
\* The result is ordered by priority; std::sort is not a stable sort, so
\* the relative order of elements of equal priority is whatever the
\* library's algorithm leaves: every order is a possible outcome.
RECURSIVE SortOutcomes(_)
SortOutcomes(S) ==
    IF S = {} THEN {<<>>}
    ELSE LET first == {x \in S : \A y \in S : ~(get_priority(y) < get_priority(x))}
         IN UNION {{<<x>> \o r : r \in SortOutcomes(S \ {x})} : x \in first}

std_sort(list) == SortOutcomes(Range(list))

\* load_strategies: the values strategies_ can have when it returns.
load_strategies == std_sort(Registration)

\* ensure_strategies_loaded on a router whose fields are (loaded,
\* strategies): the possible fields afterwards, with the number of runs of
\* load_strategies.
ensure_strategies_loaded(loaded, strategies) ==
    IF ~loaded
    THEN {[strategies |-> s, loaded |-> TRUE, loads |-> 1] :
             s \in load_strategies}
    ELSE {[strategies |-> strategies, loaded |-> loaded, loads |-> 0]}

\* The scan of route_command: the position of the first strategy at or
\* after i whose can_handle accepts the input, or 0 when there is none.
RECURSIVE FirstMatch(_, _, _)
FirstMatch(strategies, input_text, i) ==
    IF i > Len(strategies) THEN 0
    ELSE IF can_handle(strategies[i], input_text) THEN i
    ELSE FirstMatch(strategies, input_text, i + 1)

NoStrategyResult ==
    CommandResult(FALSE, Lit("Isaac > No strategy could handle command"), -1)

\* The loop of route_command over strategies: which strategies had
\* can_handle called, which one was executed, and what the call did.
dispatch(strategies, input_text, table, sh) ==
    LET k == FirstMatch(strategies, input_text, 1) IN
    IF k = 0
    THEN [consulted |-> strategies, executed |-> <<>>,
          outcome |-> Returned(NoStrategyResult, <<>>, FALSE)]
    ELSE [consulted |-> SubSeq(strategies, 1, k),
          executed |-> <<strategies[k]>>,
          outcome |-> execute(strategies[k], input_text, table, sh,
                              strategies)]

(***************************************************************************)
(* Inputs of the model.                                                    *)
(***************************************************************************)
\* The lines routed and classified.
Inputs ==
    { I_empty, I_blank, I_ls, I_LS_l, I_grep_x, I_find_dot, I_git_status,
      I_rm_rf, I_sp_rm, I_Remove_Item, I_x, I_rm_pipe, I_ls_pipe,
      I_bang_pipe, I_cd, I_cd_tmp, I_cd_sp, I_cdx, I_bang, I_bang_rm,
      I_bang_sp_ls, I_bang_local, I_exit, I_QUIT, I_q, I_slash_q,
      I_exit_now, I_config, I_config_set_foo_bar, I_config_set_foo,
      I_config_get_foo, I_config_get, I_config_list, I_config_status,
      I_config_bogus, I_task, I_task_write, I_agent, I_agentic_go,
      I_isaac_hello, I_ISAAC, I_help, I_HELP, I_status, I_slash_foo,
      I_cd_a_b, I_slash_Quit, I_slash_exit }

\* The command lines classified through TierValidator's own interface.
Commands ==
    { I_empty, I_blank, I_ls, I_LS_l, I_grep_x, I_find_dot, I_git_status,
      I_rm_rf, I_sp_rm, I_Remove_Item, I_x, I_rm_pipe, I_cd_tmp, I_bang_rm,
      I_exit, I_GREP_r, I_Find_dot, I_Rm_f, I_GIT, I_tab_ls }

\* The states of the external rule resource at construction: absent, or
\* readable with some content (fault # 0: the parser raises an exception).
RuleFiles ==
    { NoFile,
      RuleFile(F_empty, 0), RuleFile(F_garbage, 0),
      RuleFile(F_json, 0), RuleFile(F_json_lines, 0),
      RuleFile(F_one, 0), RuleFile(F_two, 0),
      RuleFile(F_two, 1), RuleFile(F_two, 2),
      RuleFile(F_tier5, 0), RuleFile(F_huge, 0), RuleFile(F_tier22, 0) }

\* The rule resources a router's validator is constructed over.
RouterRuleFiles ==
    { NoFile, RuleFile(F_json, 0), RuleFile(F_two, 0),
      RuleFile(F_tier5, 0), RuleFile(F_huge, 0) }

\* The lines routed in the concurrent specification.
ConcInputs == { I_ls, I_rm_pipe, I_bang_rm }

Threads == 1..NumThreads

(***************************************************************************)
(* State.                                                                  *)
(***************************************************************************)
VARIABLES
    rule_file,          \* the external rule resource found at construction
    tier_defaults_,     \* TierValidator::tier_defaults_
    strategies_,        \* CommandRouter::strategies_
    strategies_loaded_, \* CommandRouter::strategies_loaded_
    load_count,         \* number of runs of load_strategies so far
    calls,              \* number of route_command / get_help calls so far
    op,                 \* the last public call made
    input,              \* its argument
    loaded_before,      \* strategies_loaded_ when that call started
    threw,              \* the call left by an exception
    result,             \* the CommandResult route_command returned
    consulted,          \* strategies whose can_handle it called, in order
    executed,           \* strategies whose execute it called
    shell_log,          \* commands it passed to the shell executor
    classified,         \* it called get_tier
    help_ret,           \* the text the last get_help returned
    tier_ret,           \* what the last TierValidator::get_tier call did
    pred_ret,           \* what the last calls of the three predicates did
    pc,                 \* concurrent specification: where each thread is
    t_input,            \* the line each thread routes
    t_idx,              \* the position of each thread's scan
    t_stale,            \* the thread's iterators were invalidated
    t_result,           \* what each thread's route_command did
    p_strategies,       \* two routers over one rule table: strategies_
    p_loaded,           \* ... strategies_loaded_
    p_in,               \* ... the input of the router's last route_command
    p_sh,               \* ... what the shell answered during that call
    p_out,              \* ... what that call did
    sh_pc,              \* ShellAdapter: where execute_unix is
    sh_timeout,         \* its timeout_seconds argument
    sh_elapsed,         \* seconds since the call started
    sh_owned,           \* the unique_ptr pipe holds the FILE*
    sh_handle,          \* the FILE* popen returned: none, open or closed
    sh_closes,          \* number of pclose calls on that FILE*
    sh_child,           \* the spawned process
    sh_status,          \* its wait status once it has exited
    sh_pending,         \* lines it has written that fgets has not read
    sh_printed,         \* lines it has written in all
    sh_read,            \* lines fgets has read (result)
    sh_result,          \* the CommandResult of the last call
    sh_calls,           \* calls that have returned
    sh_leaked,          \* FILE*s still open when their call returned
    mp_built,           \* MemoryPool: the constructor has run
    mp_pool,            \* MemoryPool::pool_, the objects in vector order
    mp_mutex,           \* MemoryPool::mutex_: 0, or the thread that holds it
    mp_pc,              \* per thread: the MemoryPool call it is inside
    mp_arg,             \* per thread: the object passed to deallocate
    mp_held,            \* per thread: pointers got from allocate, not yet
                        \* given back with deallocate
    mp_size_ret,        \* per thread: what size() returned last
    mp_avail_ret,       \* per thread: what available() returned last
    mp_calls            \* MemoryPool calls made so far

seq_vars ==
    << calls, op, input, loaded_before, threw, result, consulted, executed,
       shell_log, classified, help_ret, tier_ret, pred_ret >>

conc_vars == << pc, t_input, t_idx, t_stale, t_result >>

pair_vars == << p_strategies, p_loaded, p_in, p_sh, p_out >>

shell_vars ==
    << sh_pc, sh_timeout, sh_elapsed, sh_owned, sh_handle, sh_closes,
       sh_child, sh_status, sh_pending, sh_printed, sh_read, sh_result,
       sh_calls, sh_leaked >>

pool_vars ==
    << mp_built, mp_pool, mp_mutex, mp_pc, mp_arg, mp_held, mp_size_ret,
       mp_avail_ret, mp_calls >>

ext_vars == << pair_vars, shell_vars, pool_vars >>

vars ==
    << rule_file, tier_defaults_, strategies_, strategies_loaded_,
       load_count, seq_vars, conc_vars, ext_vars >>

NoCall == Returned(NoResult, <<>>, FALSE)

\* A ShellAdapter with no call in progress.
ShellInit ==
    /\ sh_pc = "idle"
    /\ sh_timeout = 0
    /\ sh_elapsed = 0
    /\ sh_owned = FALSE
    /\ sh_handle = "none"
    /\ sh_closes = 0
    /\ sh_child = "none"
    /\ sh_status = 0
    /\ sh_pending = 0
    /\ sh_printed = 0
    /\ sh_read = 0
    /\ sh_result = NoResult
    /\ sh_calls = 0
    /\ sh_leaked = 0

\* Before a MemoryPool's constructor has run, and no thread in a call.
PoolInit ==
    /\ mp_built = FALSE
    /\ mp_pool = <<>>
    /\ mp_mutex = 0
    /\ mp_pc = [t \in Threads |-> "idle"]
    /\ mp_arg = [t \in Threads |-> 0]
    /\ mp_held = [t \in Threads |-> <<>>]
    /\ mp_size_ret = [t \in Threads |-> 0]
    /\ mp_avail_ret = [t \in Threads |-> 0]
    /\ mp_calls = 0

\* The two routers of the pair specification.
Routers == {"a", "b"}

\* Both routers of the pair freshly constructed.
PairInit ==
    /\ p_strategies = [r \in Routers |-> <<>>]
    /\ p_loaded = [r \in Routers |-> FALSE]
    /\ p_in = [r \in Routers |-> <<>>]
    /\ p_sh = [r \in Routers |-> CHOOSE sh \in ShellOutcomes : ~sh.spawned]
    /\ p_out = [r \in Routers |-> NoCall]

\* No predicate has been called yet.
NoPredicates ==
    [is_safe |-> [threw |-> FALSE, value |-> FALSE],
     requires_confirmation |-> [threw |-> FALSE, value |-> FALSE],
     requires_validation |-> [threw |-> FALSE, value |-> FALSE]]

\* The state after CommandRouter's constructor, which constructs the
\* TierValidator (load_tier_defaults) and leaves strategies_ empty.
Init ==
    /\ rule_file \in RouterRuleFiles
    /\ tier_defaults_ = load_tier_defaults(rule_file)
    /\ strategies_ = <<>>
    /\ strategies_loaded_ = FALSE
    /\ load_count = 0
    /\ calls = 0
    /\ op = "none"
    /\ input = <<>>
    /\ loaded_before = FALSE
    /\ threw = FALSE
    /\ result = NoResult
    /\ consulted = <<>>
    /\ executed = <<>>
    /\ shell_log = <<>>
    /\ classified = FALSE
    /\ help_ret = <<>>
    /\ tier_ret = Tier(0, 1)
    /\ pred_ret = NoPredicates
    /\ pc = [t \in Threads |-> "idle"]
    /\ t_input = [t \in Threads |-> <<>>]
    /\ t_idx = [t \in Threads |-> 0]
    /\ t_stale = [t \in Threads |-> FALSE]
    /\ t_result = [t \in Threads |-> NoCall]
    /\ PairInit
    /\ ShellInit
    /\ PoolInit

(***************************************************************************)
(* Sequential calls on one router.                                         *)
(***************************************************************************)
\* CommandRouter::route_command(input_text); sh is what the shell does if
\* the selected strategy invokes it.
route_command(input_text, sh) ==
    /\ calls < MaxCalls
    /\ \E r \in ensure_strategies_loaded(strategies_loaded_, strategies_) :
       \E d \in {dispatch(r.strategies, input_text, tier_defaults_, sh)} :
          /\ strategies_' = r.strategies
          /\ strategies_loaded_' = r.loaded
          /\ load_count' = load_count + r.loads
          /\ consulted' = d.consulted
          /\ executed' = d.executed
          /\ threw' = d.outcome.threw
          /\ result' = d.outcome.result
          /\ shell_log' = d.outcome.shell
          /\ classified' = d.outcome.classified
    /\ calls' = calls + 1
    /\ op' = "route_command"
    /\ input' = input_text
    /\ loaded_before' = strategies_loaded_
    /\ UNCHANGED << rule_file, tier_defaults_, help_ret, tier_ret, pred_ret,
                    conc_vars, ext_vars >>

\* CommandRouter::get_help()
GetHelp ==
    /\ calls < MaxCalls
    /\ help_ret' = get_help(strategies_)
    /\ calls' = calls + 1
    /\ op' = "get_help"
    /\ input' = <<>>
    /\ loaded_before' = strategies_loaded_
    /\ threw' = FALSE
    /\ result' = NoResult
    /\ consulted' = <<>>
    /\ executed' = <<>>
    /\ shell_log' = <<>>
    /\ classified' = FALSE
    /\ UNCHANGED << rule_file, tier_defaults_, strategies_,
                    strategies_loaded_, load_count, tier_ret, pred_ret,
                    conc_vars, ext_vars >>

RouteCommand == \E i \in Inputs, sh \in ShellOutcomes : route_command(i, sh)

Next == RouteCommand \/ GetHelp

Spec == Init /\ [][Next]_vars

(***************************************************************************)
(* The TierValidator on its own: construction over each rule resource,     *)
(* then classification calls.                                              *)
(***************************************************************************)
router_vars ==
    << strategies_, strategies_loaded_, load_count, calls, loaded_before,
       threw, result, consulted, executed, shell_log, classified, help_ret >>

\* Before the constructor has run: the map is default-constructed.
InitTier ==
    /\ rule_file \in RuleFiles
    /\ tier_defaults_ = EmptyMap
    /\ strategies_ = <<>>
    /\ strategies_loaded_ = FALSE
    /\ load_count = 0
    /\ calls = 0
    /\ op = "none"
    /\ input = <<>>
    /\ loaded_before = FALSE
    /\ threw = FALSE
    /\ result = NoResult
    /\ consulted = <<>>
    /\ executed = <<>>
    /\ shell_log = <<>>
    /\ classified = FALSE
    /\ help_ret = <<>>
    /\ tier_ret = Tier(0, 1)
    /\ pred_ret = NoPredicates
    /\ pc = [t \in Threads |-> "idle"]
    /\ t_input = [t \in Threads |-> <<>>]
    /\ t_idx = [t \in Threads |-> 0]
    /\ t_stale = [t \in Threads |-> FALSE]
    /\ t_result = [t \in Threads |-> NoCall]
    /\ PairInit
    /\ ShellInit
    /\ PoolInit

\* TierValidator::TierValidator()
TierValidator ==
    /\ op = "none"
    /\ tier_defaults_' = load_tier_defaults(rule_file)
    /\ op' = "TierValidator"
    /\ UNCHANGED << rule_file, input, tier_ret, pred_ret, router_vars,
                    conc_vars, ext_vars >>

\* TierValidator::get_tier(command)
GetTier(command) ==
    /\ op # "none"
    /\ tier_ret' = get_tier(tier_defaults_, command)
    /\ op' = "get_tier"
    /\ input' = command
    /\ UNCHANGED << rule_file, tier_defaults_, pred_ret, router_vars,
                    conc_vars, ext_vars >>

\* A caller asks is_safe(command), requires_confirmation(command) and
\* requires_validation(command) of the same validator, then get_tier.
Predicates(command) ==
    /\ op # "none"
    /\ pred_ret' = [is_safe |-> is_safe(tier_defaults_, command),
                    requires_confirmation |->
                        requires_confirmation(tier_defaults_, command),
                    requires_validation |->
                        requires_validation(tier_defaults_, command)]
    /\ tier_ret' = get_tier(tier_defaults_, command)
    /\ op' = "predicates"
    /\ input' = command
    /\ UNCHANGED << rule_file, tier_defaults_, router_vars, conc_vars, ext_vars >>

Classify == \E c \in Commands : GetTier(c)

AskPredicates == \E c \in Commands : Predicates(c)

NextTier == TierValidator \/ Classify \/ AskPredicates

SpecTier == InitTier /\ [][NextTier]_vars

(***************************************************************************)
(* Threads sharing one router.  route_command takes no lock, so its steps  *)
(* interleave: the test of strategies_loaded_, the assignment of the       *)
(* initializer list to strategies_, the sort, the store to the flag, and   *)
(* each iteration of the scan.  Reading strategies_ while another thread   *)
(* is writing it, or through iterators that another thread's assignment    *)
(* invalidated, is a data race: the element read is then arbitrary, or the *)
(* read faults.                                                            *)
(***************************************************************************)
seq_state ==
    << rule_file, tier_defaults_, calls, op, input, loaded_before, threw,
       result, consulted, executed, shell_log, classified, help_ret,
       tier_ret, pred_ret >>

InitConc == Init /\ rule_file = NoFile

\* A thread calls route_command(input_text).
T_Call(t, input_text) ==
    /\ pc[t] = "idle"
    /\ pc' = [pc EXCEPT ![t] = "check"]
    /\ t_input' = [t_input EXCEPT ![t] = input_text]
    /\ UNCHANGED << strategies_, strategies_loaded_, load_count, t_idx,
                    t_stale, t_result, seq_state, ext_vars >>

\* ensure_strategies_loaded: if (!strategies_loaded_)
T_Check(t) ==
    /\ pc[t] = "check"
    /\ IF strategies_loaded_
       THEN /\ pc' = [pc EXCEPT ![t] = "scan"]
            /\ t_idx' = [t_idx EXCEPT ![t] = 1]
       ELSE /\ pc' = [pc EXCEPT ![t] = "assign"]
            /\ UNCHANGED t_idx
    /\ UNCHANGED << strategies_, strategies_loaded_, load_count, t_input,
                    t_stale, t_result, seq_state, ext_vars >>

\* load_strategies: strategies_ = { ... }
T_Assign(t) ==
    /\ pc[t] = "assign"
    /\ strategies_' = Registration
    /\ load_count' = load_count + 1
    /\ t_stale' = [u \in Threads |->
                      t_stale[u] \/ (u # t /\ pc[u] = "scan")]
    /\ pc' = [pc EXCEPT ![t] = "sort"]
    /\ UNCHANGED << strategies_loaded_, t_input, t_idx, t_result, seq_state, ext_vars >>

\* load_strategies: std::sort(strategies_.begin(), strategies_.end(), ...)
T_Sort(t) ==
    /\ pc[t] = "sort"
    /\ strategies_' \in std_sort(strategies_)
    /\ pc' = [pc EXCEPT ![t] = "setflag"]
    /\ UNCHANGED << strategies_loaded_, load_count, t_input, t_idx, t_stale,
                    t_result, seq_state, ext_vars >>

\* ensure_strategies_loaded: strategies_loaded_ = true
T_SetFlag(t) ==
    /\ pc[t] = "setflag"
    /\ strategies_loaded_' = TRUE
    /\ pc' = [pc EXCEPT ![t] = "scan"]
    /\ t_idx' = [t_idx EXCEPT ![t] = 1]
    /\ UNCHANGED << strategies_, load_count, t_input, t_stale, t_result,
                    seq_state, ext_vars >>

\* The thread's read of strategies_ races with another thread's write.
Racy(t) == t_stale[t] \/ \E u \in Threads : u # t /\ pc[u] = "sort"

\* One iteration of the scan on the element st.
ScanElement(t, st, sh) ==
    IF can_handle(st, t_input[t])
    THEN /\ t_result' = [t_result EXCEPT ![t] =
                 execute(st, t_input[t], tier_defaults_, sh, strategies_)]
         /\ pc' = [pc EXCEPT ![t] = "done"]
         /\ UNCHANGED t_idx
    ELSE /\ t_idx' = [t_idx EXCEPT ![t] = t_idx[t] + 1]
         /\ UNCHANGED << pc, t_result >>

\* route_command: the loop has reached the end of strategies_.
T_ScanEnd(t) ==
    /\ pc[t] = "scan"
    /\ t_idx[t] > Len(strategies_)
    /\ t_result' = [t_result EXCEPT ![t] =
                       Returned(NoStrategyResult, <<>>, FALSE)]
    /\ pc' = [pc EXCEPT ![t] = "done"]
    /\ UNCHANGED << strategies_, strategies_loaded_, load_count, t_input,
                    t_idx, t_stale, seq_state, ext_vars >>

\* route_command: one iteration of the loop, free of races.
T_Scan(t) ==
    /\ pc[t] = "scan"
    /\ t_idx[t] <= Len(strategies_)
    /\ ~Racy(t)
    /\ \E sh \in ShellOutcomes : ScanElement(t, strategies_[t_idx[t]], sh)
    /\ UNCHANGED << strategies_, strategies_loaded_, load_count, t_input,
                    t_stale, seq_state, ext_vars >>

\* route_command: one iteration of the loop under a data race.
T_ScanRacy(t) ==
    /\ pc[t] = "scan"
    /\ t_idx[t] <= Len(strategies_)
    /\ Racy(t)
    /\ \/ \E st \in Strategies, sh \in ShellOutcomes : ScanElement(t, st, sh)
       \/ /\ pc' = [pc EXCEPT ![t] = "crashed"]
          /\ UNCHANGED << t_idx, t_result >>
    /\ UNCHANGED << strategies_, strategies_loaded_, load_count, t_input,
                    t_stale, seq_state, ext_vars >>

NextConc ==
    \E t \in Threads :
       \/ \E i \in ConcInputs : T_Call(t, i)
       \/ T_Check(t)
       \/ T_Assign(t)
       \/ T_Sort(t)
       \/ T_SetFlag(t)
       \/ T_Scan(t)
       \/ T_ScanRacy(t)
       \/ T_ScanEnd(t)

SpecConc == InitConc /\ [][NextConc]_vars

(***************************************************************************)
(* Two routers constructed over the same rule table, each routing any      *)
(* sequence of inputs; the shell's answer during each call is recorded.    *)
(***************************************************************************)
\* The lines routed by the pair.
PairInputs ==
    { I_ls, I_x, I_find_dot, I_rm_pipe, I_bang_local, I_help }

\* Router r runs route_command(input_text); sh is what the shell does if
\* the selected strategy invokes it.
P_Route(r, input_text, sh) ==
    /\ \E l \in ensure_strategies_loaded(p_loaded[r], p_strategies[r]) :
       \E d \in {dispatch(l.strategies, input_text, tier_defaults_, sh)} :
          /\ p_strategies' = [p_strategies EXCEPT ![r] = l.strategies]
          /\ p_loaded' = [p_loaded EXCEPT ![r] = l.loaded]
          /\ p_out' = [p_out EXCEPT ![r] = d.outcome]
    /\ p_in' = [p_in EXCEPT ![r] = input_text]
    /\ p_sh' = [p_sh EXCEPT ![r] = sh]
    /\ UNCHANGED << rule_file, tier_defaults_, strategies_,
                    strategies_loaded_, load_count, seq_vars, conc_vars,
                    shell_vars, pool_vars >>

NextPair ==
    \E r \in Routers, i \in PairInputs, sh \in ShellOutcomes : P_Route(r, i, sh)

SpecPair == Init /\ [][NextPair]_vars

(***************************************************************************)
(* ShellAdapter::execute_with_timeout step by step, with the spawned       *)
(* process as the environment: it may write lines, close its output and    *)
(* exit, each at any time or never.  Time passes (Tick) only while the     *)
(* adapter is blocked in fgets or in pclose; its own steps take no time.   *)
(***************************************************************************)
\* The timeout execute passes to execute_with_timeout.
DefaultTimeout == 30

\* The timeouts callers pass to execute_with_timeout themselves.
Timeouts == {1, 2}

\* Wait statuses of a spawned process: exit(0), exit(1), killed by SIGKILL.
ChildStatuses == {0, 256, 9}

WEXITSTATUS(status) == (status \div 256) % 256

\* The text of n lines read from the pipe.
RECURSIVE Lines(_)
Lines(n) == IF n = 0 THEN <<>> ELSE <<"o", "k", "\n">> \o Lines(n - 1)

core_vars ==
    << rule_file, tier_defaults_, strategies_, strategies_loaded_,
       load_count, seq_vars, conc_vars, pair_vars, pool_vars >>

\* execute_with_timeout(command, timeout_seconds) is entered.
execute_with_timeout(timeout_seconds) ==
    /\ sh_pc = "idle"
    /\ sh_calls < MaxShellCalls
    /\ sh_pc' = "popen"
    /\ sh_timeout' = timeout_seconds
    /\ sh_elapsed' = 0
    /\ sh_owned' = FALSE
    /\ sh_handle' = "none"
    /\ sh_closes' = 0
    /\ sh_child' = "none"
    /\ sh_status' = 0
    /\ sh_pending' = 0
    /\ sh_printed' = 0
    /\ sh_read' = 0
    /\ sh_result' = NoResult
    /\ UNCHANGED << sh_calls, sh_leaked, core_vars >>

\* execute(command)
ShellExecute == execute_with_timeout(DefaultTimeout)

ShellExecuteWithTimeout == \E t \in Timeouts : execute_with_timeout(t)

\* execute_unix: pipe(popen(command.c_str(), "r"), pclose) and if (!pipe)
S_Popen ==
    /\ sh_pc = "popen"
    /\ \/ /\ sh_result' = CommandResult(FALSE,
                               Lit("Isaac > Failed to execute command"), -1)
          /\ sh_pc' = "return"
          /\ UNCHANGED << sh_owned, sh_handle, sh_child >>
       \/ /\ sh_owned' = TRUE
          /\ sh_handle' = "open"
          /\ sh_child' = "running"
          /\ sh_pc' = "read"
          /\ UNCHANGED sh_result
    /\ UNCHANGED << sh_timeout, sh_elapsed, sh_closes, sh_status, sh_pending,
                    sh_printed, sh_read, sh_calls, sh_leaked, core_vars >>

\* fgets cannot return yet: nothing to read and the output still open.
FgetsBlocked == sh_pending = 0 /\ sh_child = "running"

\* execute_unix: one fgets of the while loop, and result += buffer.data()
S_Fgets ==
    /\ sh_pc = "read"
    /\ ~FgetsBlocked
    /\ IF sh_pending > 0
       THEN /\ sh_pending' = sh_pending - 1
            /\ sh_read' = sh_read + 1
            /\ UNCHANGED sh_pc
       ELSE /\ sh_pc' = "pclose"
            /\ UNCHANGED << sh_pending, sh_read >>
    /\ UNCHANGED << sh_timeout, sh_elapsed, sh_owned, sh_handle, sh_closes,
                    sh_child, sh_status, sh_printed, sh_result, sh_calls,
                    sh_leaked, core_vars >>

\* execute_unix: pclose(pipe.release()), first half: the unique_ptr gives
\* the FILE* up and pclose closes the stream.
S_PcloseClose ==
    /\ sh_pc = "pclose"
    /\ sh_owned' = FALSE
    /\ sh_handle' = "closed"
    /\ sh_closes' = sh_closes + 1
    /\ sh_pc' = "wait"
    /\ UNCHANGED << sh_timeout, sh_elapsed, sh_child, sh_status, sh_pending,
                    sh_printed, sh_read, sh_result, sh_calls, sh_leaked,
                    core_vars >>

\* pclose cannot return yet: the process has not exited.
WaitBlocked == sh_child # "exited"

\* execute_unix: pclose, second half (it waits for the process), then
\* WEXITSTATUS and the CommandResult.
S_PcloseWait ==
    /\ sh_pc = "wait"
    /\ ~WaitBlocked
    /\ sh_child' = "reaped"
    /\ LET exit_code == WEXITSTATUS(sh_status) IN
       sh_result' = CommandResult(exit_code = 0, Txt(Lines(sh_read)),
                                  exit_code)
    /\ sh_pc' = "return"
    /\ UNCHANGED << sh_timeout, sh_elapsed, sh_owned, sh_handle, sh_closes,
                    sh_status, sh_pending, sh_printed, sh_read, sh_calls,
                    sh_leaked, core_vars >>

\* execute_unix returns: the unique_ptr is destroyed (it calls pclose if it
\* still holds the FILE*), and the caller has the result.
S_Return ==
    /\ sh_pc = "return"
    /\ IF sh_owned
       THEN /\ sh_handle' = "closed"
            /\ sh_closes' = sh_closes + 1
       ELSE UNCHANGED << sh_handle, sh_closes >>
    /\ sh_owned' = FALSE
    /\ sh_leaked' = sh_leaked + (IF ~sh_owned /\ sh_handle = "open" THEN 1 ELSE 0)
    /\ sh_calls' = sh_calls + 1
    /\ sh_pc' = "idle"
    /\ UNCHANGED << sh_timeout, sh_elapsed, sh_child, sh_status, sh_pending,
                    sh_printed, sh_read, sh_result, core_vars >>

\* The spawned process writes a line.
ChildPrint ==
    /\ sh_child = "running"
    /\ sh_pc \in {"read", "pclose"}
    /\ sh_printed < MaxOutput
    /\ sh_pending' = sh_pending + 1
    /\ sh_printed' = sh_printed + 1
    /\ UNCHANGED << sh_pc, sh_timeout, sh_elapsed, sh_owned, sh_handle,
                    sh_closes, sh_child, sh_status, sh_read, sh_result,
                    sh_calls, sh_leaked, core_vars >>

\* The spawned process closes its standard output and keeps running.
ChildCloseOutput ==
    /\ sh_child = "running"
    /\ sh_child' = "detached"
    /\ UNCHANGED << sh_pc, sh_timeout, sh_elapsed, sh_owned, sh_handle,
                    sh_closes, sh_status, sh_pending, sh_printed, sh_read,
                    sh_result, sh_calls, sh_leaked, core_vars >>

\* The spawned process ends with a wait status.
ChildExit ==
    /\ sh_child \in {"running", "detached"}
    /\ sh_child' = "exited"
    /\ sh_status' \in ChildStatuses
    /\ UNCHANGED << sh_pc, sh_timeout, sh_elapsed, sh_owned, sh_handle,
                    sh_closes, sh_pending, sh_printed, sh_read, sh_result,
                    sh_calls, sh_leaked, core_vars >>

\* A second passes while the adapter is blocked.  (The count stops one past
\* the timeout: later seconds add nothing.)
Tick ==
    /\ \/ sh_pc = "read" /\ FgetsBlocked
       \/ sh_pc = "wait" /\ WaitBlocked
    /\ sh_elapsed <= sh_timeout
    /\ sh_elapsed' = sh_elapsed + 1
    /\ UNCHANGED << sh_pc, sh_timeout, sh_owned, sh_handle, sh_closes,
                    sh_child, sh_status, sh_pending, sh_printed, sh_read,
                    sh_result, sh_calls, sh_leaked, core_vars >>

NextShell ==
    \/ ShellExecute
    \/ ShellExecuteWithTimeout
    \/ S_Popen
    \/ S_Fgets
    \/ S_PcloseClose
    \/ S_PcloseWait
    \/ S_Return
    \/ ChildPrint
    \/ ChildCloseOutput
    \/ ChildExit
    \/ Tick

SpecShell == InitConc /\ [][NextShell]_vars

(***************************************************************************)
(* MemoryPool<T> for a T derived from Poolable, used by the threads.       *)
(* Every member function holds mutex_ from its first statement to its      *)
(* return (std::lock_guard), so a call is two steps: taking the mutex,     *)
(* then the body together with the release.  An object is known by its     *)
(* position in pool_ (the vector holds unique_ptrs, so addresses are       *)
(* stable and positions never change).  Callers give back only pointers    *)
(* they hold.                                                              *)
(***************************************************************************)
\* The initial_capacity arguments the pools are constructed with.
InitialCapacities == {0, 1, 2}

\* Poolable::Poolable() : in_use_(false)
Poolable == [in_use_ |-> FALSE]

\* obj->~T(); new (obj.get()) T(args...): the object is constructed again
\* in place, and constructing a T runs Poolable's constructor first.
Reconstruct(obj) == Poolable

\* The first object of pool_ that is not in use, 0 if there is none.
FirstFree(pool) ==
    IF \E i \in 1..Len(pool) : ~pool[i].in_use_
    THEN CHOOSE i \in 1..Len(pool) :
            /\ ~pool[i].in_use_
            /\ \A j \in 1..(i - 1) : pool[j].in_use_
    ELSE 0

\* s without its first element equal to x.
RECURSIVE RemoveFirst(_, _)
RemoveFirst(s, x) ==
    IF s = <<>> THEN <<>>
    ELSE IF Head(s) = x THEN Tail(s)
    ELSE <<Head(s)>> \o RemoveFirst(Tail(s), x)

\* MemoryPool::size
size(pool) == Len(pool)

\* MemoryPool::available
available(pool) == Cardinality({i \in 1..Len(pool) : ~pool[i].in_use_})

nonpool_vars ==
    << rule_file, tier_defaults_, strategies_, strategies_loaded_,
       load_count, seq_vars, conc_vars, pair_vars, shell_vars >>

\* MemoryPool::MemoryPool(initial_capacity)
MemoryPool(initial_capacity) ==
    /\ ~mp_built
    /\ mp_built' = TRUE
    /\ mp_pool' = [i \in 1..initial_capacity |-> Poolable]
    /\ UNCHANGED << mp_mutex, mp_pc, mp_arg, mp_held, mp_size_ret,
                    mp_avail_ret, mp_calls, nonpool_vars >>

\* Thread t enters a member function and takes mutex_ (lock_guard).
MP_Lock(t, call, obj) ==
    /\ mp_built
    /\ mp_pc[t] = "idle"
    /\ mp_mutex = 0
    /\ mp_calls < MaxPoolCalls
    /\ mp_calls' = mp_calls + 1
    /\ mp_mutex' = t
    /\ mp_pc' = [mp_pc EXCEPT ![t] = call]
    /\ mp_arg' = [mp_arg EXCEPT ![t] = obj]
    /\ UNCHANGED << mp_built, mp_pool, mp_held, mp_size_ret, mp_avail_ret,
                    nonpool_vars >>

\* Thread t calls allocate.
MP_CallAllocate(t) ==
    /\ Len(mp_held[t]) < MaxHeld
    /\ MP_Lock(t, "allocate", 0)

\* Thread t calls deallocate with a pointer it holds.
MP_CallDeallocate(t) ==
    \E k \in 1..Len(mp_held[t]) : MP_Lock(t, "deallocate", mp_held[t][k])

\* Thread t calls size.
MP_CallSize(t) == MP_Lock(t, "size", 0)

\* Thread t calls available.
MP_CallAvailable(t) == MP_Lock(t, "available", 0)

\* The body of allocate, and the return.
allocate(t) ==
    /\ mp_pc[t] = "allocate"
    /\ mp_mutex = t
    /\ LET i == FirstFree(mp_pool) IN
       IF i # 0
       THEN /\ mp_pool' =
                 [mp_pool EXCEPT
                    ![i] = Reconstruct([mp_pool[i] EXCEPT !.in_use_ = TRUE])]
            /\ mp_held' = [mp_held EXCEPT ![t] = Append(@, i)]
       ELSE /\ mp_pool' =
                 Append(mp_pool, [Poolable EXCEPT !.in_use_ = TRUE])
            /\ mp_held' = [mp_held EXCEPT ![t] = Append(@, Len(mp_pool) + 1)]
    /\ mp_mutex' = 0
    /\ mp_pc' = [mp_pc EXCEPT ![t] = "idle"]
    /\ UNCHANGED << mp_built, mp_arg, mp_size_ret, mp_avail_ret, mp_calls,
                    nonpool_vars >>

\* The body of deallocate, and the return.
deallocate(t) ==
    /\ mp_pc[t] = "deallocate"
    /\ mp_mutex = t
    /\ mp_pool' = [i \in 1..Len(mp_pool) |->
                     IF i = mp_arg[t]
                     THEN [mp_pool[i] EXCEPT !.in_use_ = FALSE]
                     ELSE mp_pool[i]]
    /\ mp_held' = [mp_held EXCEPT ![t] = RemoveFirst(@, mp_arg[t])]
    /\ mp_mutex' = 0
    /\ mp_pc' = [mp_pc EXCEPT ![t] = "idle"]
    /\ UNCHANGED << mp_built, mp_arg, mp_size_ret, mp_avail_ret, mp_calls,
                    nonpool_vars >>

\* The body of size, and the return.
MP_Size(t) ==
    /\ mp_pc[t] = "size"
    /\ mp_mutex = t
    /\ mp_size_ret' = [mp_size_ret EXCEPT ![t] = size(mp_pool)]
    /\ mp_mutex' = 0
    /\ mp_pc' = [mp_pc EXCEPT ![t] = "idle"]
    /\ UNCHANGED << mp_built, mp_pool, mp_arg, mp_held, mp_avail_ret,
                    mp_calls, nonpool_vars >>

\* The body of available, and the return.
MP_Available(t) ==
    /\ mp_pc[t] = "available"
    /\ mp_mutex = t
    /\ mp_avail_ret' = [mp_avail_ret EXCEPT ![t] = available(mp_pool)]
    /\ mp_mutex' = 0
    /\ mp_pc' = [mp_pc EXCEPT ![t] = "idle"]
    /\ UNCHANGED << mp_built, mp_pool, mp_arg, mp_held, mp_size_ret,
                    mp_calls, nonpool_vars >>

PoolConstruct == \E c \in InitialCapacities : MemoryPool(c)

NextPool ==
    \/ PoolConstruct
    \/ \E t \in Threads :
          \/ MP_CallAllocate(t)
          \/ MP_CallDeallocate(t)
          \/ MP_CallSize(t)
          \/ MP_CallAvailable(t)
          \/ allocate(t)
          \/ deallocate(t)
          \/ MP_Size(t)
          \/ MP_Available(t)

SpecPool == InitConc /\ [][NextPool]_vars

(***************************************************************************)
(* Properties of the router (specification Spec).                          *)
(***************************************************************************)

\* C1: every route_command call returns the result of executing the first
\* strategy, in dispatch order, whose can_handle accepts the input: only
\* the strategies up to that one are consulted, only that one is executed,
\* no exception leaves the call and the defensive "No strategy could
\* handle command" result is never returned.
C1_RouteTotal ==
    op = "route_command" =>
        LET k == FirstMatch(strategies_, input, 1) IN
        /\ ~threw
        /\ k > 0
        /\ consulted = SubSeq(strategies_, 1, k)
        /\ executed = <<strategies_[k]>>
        /\ result # NoStrategyResult
        /\ \E sh \in ShellOutcomes :
              result = execute(strategies_[k], input, tier_defaults_, sh,
                               strategies_).result

\* C2: a routed input whose classified tier is 4 yields success = false and
\* no invocation of the shell executor.
C2_Tier4Blocked ==
    (/\ op = "route_command"
     /\ ~get_tier(tier_defaults_, input).threw
     /\ TierEQ(get_tier(tier_defaults_, input), 4, 1))
    => (~threw /\ ~result.success /\ shell_log = <<>>)

\* C3: every routed input that contains '|' is handled by PipeStrategy
\* before any other strategy is consulted, and the shell executor receives
\* exactly the raw input.
C3_PipeFirst ==
    (op = "route_command" /\ \E i \in 1..Len(input) : input[i] = "|")
    => (/\ ~threw
        /\ consulted = <<"PipeStrategy">>
        /\ executed = <<"PipeStrategy">>
        /\ shell_log = <<input>>)

\* C3 witness: "!a|b", which ForceExecution, DeviceRouting and TierExecution
\* accept too, was routed to PipeStrategy and reached the shell verbatim.
C3_Witness ==
    /\ op = "route_command"
    /\ input = I_bang_pipe
    /\ can_handle("ForceExecutionStrategy", input)
    /\ executed = <<"PipeStrategy">>
    /\ shell_log = <<I_bang_pipe>>

\* C4: every route_command or get_help call leaves the registry Loaded with
\* load_strategies run exactly once in total (so the load happens on the
\* first such call), and once Loaded the registry stays Loaded and the
\* strategy list is never modified again.
C4_LoadedOnceOnFirstCall ==
    [][ /\ strategies_loaded_'
        /\ load_count' = 1
        /\ (strategies_loaded_ => strategies_' = strategies_) ]_vars

\* C6: get_help returns the header followed by the help text of every
\* registered strategy with a non-empty help text, in dispatch order, in
\* whatever state the registry is when it is called.
C6_HelpListsEveryStrategy ==
    op = "get_help" => \E s \in load_strategies : help_ret = get_help(s)

\* The initializer list of load_strategies sorted by priority with ties kept
\* in registration order.
RegistrationRank(st) == CHOOSE i \in 1..Len(Registration) : Registration[i] = st

\* C7: once Loaded, the list holds each of the 13 strategy variants exactly
\* once, in non-decreasing priority, strategies of equal priority in their
\* registration order (DeviceRouting before ExitBlocker), TierExecution
\* last.
C7_StablePriorityOrder ==
    strategies_loaded_ =>
        /\ Len(strategies_) = 13
        /\ Range(strategies_) = Strategies
        /\ \A i, j \in 1..Len(strategies_) :
              i < j =>
                 \/ get_priority(strategies_[i]) < get_priority(strategies_[j])
                 \/ /\ get_priority(strategies_[i]) = get_priority(strategies_[j])
                    /\ RegistrationRank(strategies_[i])
                          < RegistrationRank(strategies_[j])
        /\ strategies_[Len(strategies_)] = "TierExecutionStrategy"

\* cmd is input without its leading '!' and the white space that follows it.
IsForcedCommand(input_text, cmd) ==
    \E k \in 1..Len(input_text) :
       /\ \A j \in 2..k : isspace(input_text[j])
       /\ cmd = SubSeq(input_text, k + 1, Len(input_text))
       /\ (cmd = <<>> \/ ~isspace(cmd[1]))

\* C8: every routed input that starts with '!' and has no '|' is executed
\* by ForceExecution: the shell executor is invoked exactly once, with the
\* input minus its leading '!' and the white space after it, and the tier
\* classifier is not consulted; DeviceRoutingStrategy is executed for no
\* routed input at all.
C8_ForceExecutionWins ==
    /\ (/\ op = "route_command"
        /\ input # <<>>
        /\ input[1] = "!"
        /\ ~\E i \in 1..Len(input) : input[i] = "|")
       => (/\ ~threw
           /\ executed = <<"ForceExecutionStrategy">>
           /\ Len(shell_log) = 1
           /\ IsForcedCommand(input, shell_log[1])
           /\ ~classified)
    /\ (op = "route_command" => "DeviceRoutingStrategy" \notin Range(executed))

\* C8 witness: "!rm -rf /" was routed; the tier-4 command "rm -rf /" went
\* to the shell unclassified and its successful result was returned.
C8_Witness ==
    /\ op = "route_command"
    /\ input = I_bang_rm
    /\ executed = <<"ForceExecutionStrategy">>
    /\ shell_log = <<I_rm_rf>>
    /\ TierEQ(get_tier(tier_defaults_, I_rm_rf), 4, 1)
    /\ result.success

(***************************************************************************)
(* Properties of concurrent routing (specification SpecConc).              *)
(***************************************************************************)

\* C5: when threads call route_command concurrently on an Unloaded router,
\* load_strategies runs at most once, and no thread scans the strategy
\* list while another thread is between the assignment of the list and the
\* end of its sort.
C5_SingleInitialization ==
    /\ load_count <= 1
    /\ \A t, u \in Threads :
          t # u => ~(pc[t] = "scan" /\ pc[u] = "sort")

(***************************************************************************)
(* Properties of the classifier (specification SpecTier).                  *)
(***************************************************************************)

\* What the rule table is meant to hold after construction: the mapping a
\* well-formed resource states (the two well-formed resources of RuleFiles
\* are F_json and F_json_lines), and the hardcoded table for an absent or
\* malformed resource or a parser exception.
IntendedTable(file) ==
    IF file.open /\ file.fault = 0 /\ file.content = F_json
    THEN <<[tier |-> <<"4">>, commands |-> <<<<"r", "m">>>>]>>
    ELSE IF file.open /\ file.fault = 0 /\ file.content = F_json_lines
    THEN <<[tier |-> <<"1">>, commands |-> <<<<"l", "s">>>>],
           [tier |-> <<"4">>, commands |-> <<<<"r", "m">>>>]>>
    ELSE MapFromList(HardcodedList, EmptyMap)

\* C9: after construction the rule table is the external resource's mapping
\* when the resource was read and parsed, and otherwise the complete
\* built-in table; it is never empty, partial or a mixture.
C9_TableFromOneSource ==
    op # "none" =>
        /\ tier_defaults_ # EmptyMap
        /\ tier_defaults_ = IntendedTable(rule_file)

\* The case-folded first token of command matches no alias of the table.
Unmatched(table, command) ==
    \A i \in 1..Len(table) :
       \A j \in 1..Len(table[i].commands) :
          ToLowerStr(table[i].commands[j]) # ToLowerStr(Word(command, 1))

\* C10: get_tier returns (it does not throw) a value in {1, 2, 2.5, 3, 4},
\* and returns 3 for an empty or white-space-only command and for a command
\* whose case-folded first token matches no alias of the rule table.
C10_TierInRange ==
    op = "get_tier" =>
        /\ ~tier_ret.threw
        /\ \/ TierEQ(tier_ret, 1, 1) \/ TierEQ(tier_ret, 2, 1)
           \/ TierEQ(tier_ret, 25, 10) \/ TierEQ(tier_ret, 3, 1)
           \/ TierEQ(tier_ret, 4, 1)
        /\ ((\A i \in 1..Len(input) : isspace(input[i]))
               => TierEQ(tier_ret, 3, 1))
        /\ (Unmatched(tier_defaults_, input) => TierEQ(tier_ret, 3, 1))

\* The tier the built-in table gives a case-folded first token, where the
\* claim names it.
BuiltinTierOf(base) ==
    IF base = <<"l", "s">> THEN <<1, 1>>
    ELSE IF base = <<"g", "r", "e", "p">> THEN <<2, 1>>
    ELSE IF base = <<"f", "i", "n", "d">> THEN <<25, 10>>
    ELSE IF base = <<"g", "i", "t">> THEN <<3, 1>>
    ELSE IF base = <<"r", "m">> THEN <<4, 1>>
    ELSE <<0, 1>>

\* C11: with the built-in rule table get_tier depends only on the
\* case-folded first white-space-delimited token of the command: first
\* token ls gives 1, grep 2, find 2.5, git 3 and rm 4, in any letter case
\* and with any arguments, and two commands with the same case-folded first
\* token classify alike.
C11_BuiltinFirstToken ==
    (op = "get_tier" /\ rule_file = NoFile) =>
        LET base == ToLowerStr(Word(input, 1))
            want == BuiltinTierOf(base)
        IN /\ ~tier_ret.threw
           /\ (want[1] # 0 => TierEQ(tier_ret, want[1], want[2]))
           /\ \A c \in Commands :
                 ToLowerStr(Word(c, 1)) = base
                     => get_tier(tier_defaults_, c) = tier_ret

\* C11 witness: "Rm -f x" was classified as 4 by the built-in table.
C11_Witness ==
    /\ op = "get_tier"
    /\ rule_file = NoFile
    /\ input = I_Rm_f
    /\ TierEQ(tier_ret, 4, 1)

\* The number of the three predicates that returned true.
PredicatesTrue ==
    Cardinality({k \in {"is_safe", "requires_confirmation",
                        "requires_validation"} : pred_ret[k].value})

\* C12: for every command, is_safe holds iff get_tier <= 2,
\* requires_confirmation iff get_tier = 2.5 and requires_validation iff
\* get_tier >= 3 (each call returning), and exactly one of the three holds.
C12_PredicatesPartition ==
    op = "predicates" =>
        /\ ~tier_ret.threw
        /\ ~pred_ret.is_safe.threw
        /\ ~pred_ret.requires_confirmation.threw
        /\ ~pred_ret.requires_validation.threw
        /\ pred_ret.is_safe.value <=> TierLE(tier_ret, 2, 1)
        /\ pred_ret.requires_confirmation.value <=> TierEQ(tier_ret, 25, 10)
        /\ pred_ret.requires_validation.value <=> TierGE(tier_ret, 3, 1)
        /\ PredicatesTrue = 1

(***************************************************************************)
(* Properties of the individual strategies (specification Spec).           *)
(***************************************************************************)

\* The annotation TierExecution adds for a tier: the confirmation line for
\* 2.5, the warning line for a tier from 3 up to (not including) 4.
Annotation(tier) ==
    IF TierEQ(tier, 25, 10)
    THEN Lit("Isaac > Confirmation required for Tier 2.5 command\n")
    ELSE Lit("Isaac > Warning: Tier 3 command executed\n")

\* The last call was handled by TierExecution and get_tier returned.
HandledByTierExecution ==
    /\ op = "route_command"
    /\ executed = <<"TierExecutionStrategy">>
    /\ ~get_tier(tier_defaults_, input).threw

Annotated(tier) ==
    TierEQ(tier, 25, 10) \/ (TierGE(tier, 3, 1) /\ ~TierGE(tier, 4, 1))

\* C13 as stated: when TierExecution handles an input of tier 2.5 or of a
\* tier from 3 up to 4, the shell executor is invoked once with the
\* unmodified input, success and exit_code are the shell's, and the output
\* is the shell's output with the annotation appended; below 2.5 the
\* shell's result is returned unmodified.
C13_AnnotationAppended ==
    HandledByTierExecution =>
        LET tier == get_tier(tier_defaults_, input) IN
        /\ Annotated(tier) =>
              /\ shell_log = <<input>>
              /\ \E sh \in ShellOutcomes :
                    LET r == shell_execute(input, sh) IN
                    /\ result.success = r.success
                    /\ result.exit_code = r.exit_code
                    /\ result.output = r.output \o Annotation(tier)
        /\ ~TierGE(tier, 25, 10) =>
              /\ shell_log = <<input>>
              /\ \E sh \in ShellOutcomes : result = shell_execute(input, sh)

\* C13 amended: as C13_AnnotationAppended, except that the annotation comes
\* first: the output is the annotation followed by the shell's output.
C13_AnnotationPrefixed ==
    HandledByTierExecution =>
        LET tier == get_tier(tier_defaults_, input) IN
        /\ Annotated(tier) =>
              /\ shell_log = <<input>>
              /\ \E sh \in ShellOutcomes :
                    LET r == shell_execute(input, sh) IN
                    /\ result.success = r.success
                    /\ result.exit_code = r.exit_code
                    /\ result.output = Annotation(tier) \o r.output
        /\ ~TierGE(tier, 25, 10) =>
              /\ shell_log = <<input>>
              /\ \E sh \in ShellOutcomes : result = shell_execute(input, sh)

\* C13 witness: "find ." (tier 2.5 in the built-in table) ran in the shell,
\* which printed "ok", and the result is the confirmation line followed by
\* "ok", still successful.
C13_Witness ==
    /\ HandledByTierExecution
    /\ rule_file = NoFile
    /\ input = I_find_dot
    /\ shell_log = <<I_find_dot>>
    /\ result.success
    /\ result.output = Annotation(Tier(25, 10)) \o Txt(<<"o", "k">>)

\* The input has a '|'.
HasPipe(input_text) == \E i \in 1..Len(input_text) : input_text[i] = "|"

\* The command the claim expects for a cd line: "cd " and the first
\* white-space-delimited token after the leading "cd", or "~" without one.
CdCommand(input_text) ==
    LET rest == Tokens(SubSeq(input_text, 3, Len(input_text)), 1)
    IN <<"c", "d", " ">> \o (IF rest = <<>> THEN <<"~">> ELSE rest[1])

\* C14: every routed input that is "cd" or starts with "cd " and has no '|'
\* makes exactly one shell invocation, of "cd <dir>" where <dir> is the
\* first white-space-delimited token after cd, or "~" when there is none,
\* and the tier classifier is not consulted.
C14_CdDelegates ==
    (/\ op = "route_command"
     /\ (input = <<"c", "d">> \/ StartsWith(input, <<"c", "d", " ">>))
     /\ ~HasPipe(input))
    => (/\ ~threw
        /\ executed = <<"CdStrategy">>
        /\ shell_log = <<CdCommand(input)>>
        /\ ~classified)

\* C14 witness: "cd" was routed and the shell was given "cd ~".
C14_Witness ==
    /\ op = "route_command"
    /\ input = I_cd
    /\ executed = <<"CdStrategy">>
    /\ shell_log = <<<<"c", "d", " ", "~">>>>

\* The words after the first one of a /config line.
ConfigArgs(input_text) ==
    LET words == Tokens(input_text, 1)
    IN SubSeq(words, 2, Len(words))

\* The output has the text s in it as a piece computed from the input.
Names(output, s) == \E i \in 1..Len(output) : output[i].txt = s

\* C15: when ConfigStrategy handles an input, 'set' with at least 2 further
\* arguments succeeds with an output naming the key and the value, 'get'
\* with at least 1 further argument succeeds, 'list' and 'status' succeed;
\* 'set' with fewer than 2 arguments, 'get' with none and any unknown
\* sub-command fail with a non-zero exit code and explanatory text; the
\* shell executor is never invoked.
C15_ConfigSubcommands ==
    (op = "route_command" /\ executed = <<"ConfigStrategy">>) =>
        LET args == ConfigArgs(input)
            sub  == args[1]
            set  == sub = <<"s", "e", "t">>
            get  == sub = <<"g", "e", "t">>
            good == \/ set /\ Len(args) >= 3
                    \/ get /\ Len(args) >= 2
                    \/ sub = <<"l", "i", "s", "t">>
                    \/ sub = <<"s", "t", "a", "t", "u", "s">>
        IN /\ ~threw
           /\ shell_log = <<>>
           /\ StartsWith(input, <<"/", "c", "o", "n", "f", "i", "g">>)
           /\ args # <<>> =>
                 /\ good => result.success
                 /\ (set /\ Len(args) >= 3) =>
                       /\ Names(result.output, args[2])
                       /\ Names(result.output, args[3])
                 /\ ~good => /\ ~result.success
                             /\ result.exit_code # 0
                             /\ result.output # <<>>

\* C15 witness: "/config set foo bar" succeeded naming foo and bar, with no
\* shell invocation.
C15_Witness ==
    /\ op = "route_command"
    /\ input = I_config_set_foo_bar
    /\ executed = <<"ConfigStrategy">>
    /\ result.success
    /\ Names(result.output, <<"f", "o", "o">>)
    /\ Names(result.output, <<"b", "a", "r">>)
    /\ shell_log = <<>>

\* The input starts with "isaac task:".
IsTaskLine(input_text) ==
    StartsWith(input_text,
               <<"i", "s", "a", "a", "c", " ", "t", "a", "s", "k", ":">>)

\* The input starts with "isaac agent:" or "isaac agentic:".
IsAgenticLine(input_text) ==
    \/ StartsWith(input_text,
          <<"i", "s", "a", "a", "c", " ", "a", "g", "e", "n", "t", ":">>)
    \/ StartsWith(input_text,
          <<"i", "s", "a", "a", "c", " ", "a", "g", "e", "n", "t", "i", "c",
            ":">>)

\* C16: every routed input without '|' that starts with "isaac task:",
\* "isaac agent:" or "isaac agentic:" is handled by TaskMode or AgenticMode
\* (NaturalLanguage is neither consulted nor executed) and returns
\* success = false with a non-zero exit code and non-empty output, whether
\* or not a description follows the colon; the shell is never invoked.
C16_TaskAgenticFail ==
    (/\ op = "route_command"
     /\ ~HasPipe(input)
     /\ IsTaskLine(input) \/ IsAgenticLine(input))
    => (/\ ~threw
        /\ IsTaskLine(input) => executed = <<"TaskModeStrategy">>
        /\ IsAgenticLine(input) => executed = <<"AgenticModeStrategy">>
        /\ "NaturalLanguageStrategy" \notin Range(consulted)
        /\ ~result.success
        /\ result.exit_code # 0
        /\ result.output # <<>>
        /\ shell_log = <<>>)

\* C16 witness: "isaac task: write tests", which NaturalLanguage accepts
\* too, was handled by TaskMode and failed with an explanation naming the
\* description.
C16_Witness ==
    /\ op = "route_command"
    /\ input = I_task_write
    /\ can_handle("NaturalLanguageStrategy", input)
    /\ executed = <<"TaskModeStrategy">>
    /\ ~result.success
    /\ Names(result.output, substr(I_task_write, 11))

\* The input is, in some letter case, one of exit, quit, q, /exit, /quit,
\* /q.
IsExitWord(input_text) ==
    ToLowerStr(input_text) \in
        { <<"e", "x", "i", "t">>, <<"q", "u", "i", "t">>, <<"q">>,
          <<"/", "e", "x", "i", "t">>, <<"/", "q", "u", "i", "t">>,
          <<"/", "q">> }

\* C17: every route_command call on an exit word returns the farewell
\* result (success = true, exit_code = 0) from ExitQuit, not from
\* MetaCommand or TierExecution, with no shell invocation, and leaves the
\* router Loaded with its 13 strategies; a route_command call that follows
\* it is dispatched over the same, unchanged strategy list.
C17_ExitQuitFarewell ==
    [][ /\ (op' = "route_command" /\ IsExitWord(input')) =>
              /\ ~threw'
              /\ executed' = <<"ExitQuitStrategy">>
              /\ result'.success
              /\ result'.exit_code = 0
              /\ shell_log' = <<>>
              /\ strategies_loaded_'
              /\ Range(strategies_') = Strategies
        /\ (/\ op = "route_command"
            /\ IsExitWord(input)
            /\ op' = "route_command") =>
              /\ strategies_' = strategies_
              /\ executed' # <<>>
              /\ calls' = calls + 1 ]_vars

\* C17 witness: "/Quit", which MetaCommand and TierExecution accept too, was
\* given the farewell by ExitQuit as the second call on the router.
C17_Witness ==
    /\ op = "route_command"
    /\ input = I_slash_Quit
    /\ can_handle("MetaCommandStrategy", input)
    /\ executed = <<"ExitQuitStrategy">>
    /\ result = CommandResult(TRUE, Lit("Isaac > Goodbye!"), 0)
    /\ shell_log = <<>>
    /\ strategies_loaded_
    /\ calls = 2

(***************************************************************************)
(* Properties of two routers (specification SpecPair).                     *)
(***************************************************************************)

\* C18: when two routers over the same rule table have last routed the same
\* input with the shell answering alike, their calls ended alike: both
\* returned CommandResults with the same success, output and exit_code (or
\* both left by the exception), whatever each router routed before and
\* whether or not the call was the router's first.
C18_Deterministic ==
    (/\ p_loaded["a"] /\ p_loaded["b"]
     /\ p_in["a"] = p_in["b"]
     /\ p_sh["a"] = p_sh["b"])
    => (/\ p_out["a"].threw = p_out["b"].threw
        /\ p_out["a"].result.success = p_out["b"].result.success
        /\ p_out["a"].result.output = p_out["b"].result.output
        /\ p_out["a"].result.exit_code = p_out["b"].result.exit_code)

\* C18 witness: both routers routed "/help" and returned the same listing,
\* although std::sort left their strategy lists in different orders.
C18_Witness ==
    /\ p_loaded["a"] /\ p_loaded["b"]
    /\ p_in["a"] = I_help /\ p_in["b"] = I_help
    /\ p_sh["a"] = p_sh["b"]
    /\ p_strategies["a"] # p_strategies["b"]
    /\ p_out["a"].result.success
    /\ p_out["a"].result = p_out["b"].result

(***************************************************************************)
(* Properties of the shell adapter (specification SpecShell).              *)
(***************************************************************************)

\* A call of execute / execute_with_timeout is in progress.
InShellCall == sh_pc # "idle"

\* C19: a call of execute_with_timeout(command, t) (t = 30 for execute) is
\* never still in progress more than t seconds after it started, even when
\* the spawned command does not terminate or does not close its output,
\* and a call whose timeout expired returns success = false.
C19_ReturnsWithinTimeout ==
    /\ InShellCall => sh_elapsed <= sh_timeout
    /\ sh_pc = "return" /\ sh_elapsed >= sh_timeout => ~sh_result.success

\* C20: every FILE* / process a shell execution opened is closed exactly
\* once before the call returns, on spawn failure, normal completion and
\* timeout alike: a returning call leaves nothing open and has closed
\* nothing twice, once the timeout has expired the handle and the process
\* are reclaimed, and no handle is left open between calls.
C20_HandlesClosedOnce ==
    /\ sh_closes <= 1
    /\ sh_leaked = 0
    /\ sh_pc = "idle" =>
          /\ sh_handle \in {"none", "closed"}
          /\ sh_handle = "closed" => sh_closes = 1
          /\ sh_child \in {"none", "reaped"}
    /\ sh_elapsed > sh_timeout =>
          /\ sh_handle # "open"
          /\ sh_child \in {"none", "reaped"}

(***************************************************************************)
(* Properties of the built-in rule table (specification SpecTier).         *)
(***************************************************************************)

\* The table lists base, compared case-insensitively, under the tier label.
ListedUnder(table, label, base) ==
    \E i \in 1..Len(table) :
       /\ table[i].tier = label
       /\ \E j \in 1..Len(table[i].commands) :
             ToLowerStr(table[i].commands[j]) = ToLowerStr(base)

\* No alias of the table is listed, in any letter case, under two tiers.
AliasesDisjoint(table) ==
    \A i, k \in 1..Len(table) :
       i # k =>
          \A j \in 1..Len(table[i].commands) :
             ~ListedUnder(table, table[k].tier, table[i].commands[j])

\* C21: in the built-in rule table no alias appears, compared
\* case-insensitively, under more than one tier, and a command whose first
\* token is an alias listed under tier 4 is classified 4 by get_tier.
C21_BuiltinAliasesDisjoint ==
    (op # "none" /\ tier_defaults_ = load_hardcoded_defaults(tier_defaults_)) =>
        /\ AliasesDisjoint(tier_defaults_)
        /\ (op = "get_tier"
              /\ ListedUnder(tier_defaults_, <<"4">>, Word(input, 1)))
             => (~tier_ret.threw /\ TierEQ(tier_ret, 4, 1))

(***************************************************************************)
(* Properties of the results route_command returns (specification Spec).   *)
(***************************************************************************)

\* route_command returned a CommandResult to its caller.
Routed == op = "route_command" /\ ~threw

\* The strategies that return what ShellAdapter::execute returned.
ShellBacked ==
    { "PipeStrategy", "CdStrategy", "ForceExecutionStrategy",
      "TierExecutionStrategy" }

\* C22 as stated: every CommandResult route_command returns has success
\* true exactly when exit_code is 0, and every failure result carries a
\* non-zero exit code and a non-empty output text.
C22_FailureHasText ==
    Routed =>
        /\ result.success <=> result.exit_code = 0
        /\ ~result.success => (result.exit_code # 0 /\ result.output # <<>>)

\* C22 amended: every CommandResult route_command returns has success true
\* exactly when exit_code is 0, and every failure result carries a non-zero
\* exit code; a failure result has a non-empty output text unless it is the
\* result of a command the shell ran, whose output (possibly empty) it
\* carries: a result that came from no shell call, and a result
\* TierExecution annotated, always has text.
C22_SuccessIffExitZero ==
    Routed =>
        /\ result.success <=> result.exit_code = 0
        /\ ~result.success => result.exit_code # 0
        /\ (~result.success /\ result.output = <<>>) =>
              /\ shell_log # <<>>
              /\ \E st \in ShellBacked : executed = <<st>>
              /\ \E sh \in ShellOutcomes :
                    /\ sh.spawned
                    /\ result = shell_execute(shell_log[1], sh)
              /\ HandledByTierExecution =>
                    ~Annotated(get_tier(tier_defaults_, input))

\* C22 witness: "ls" ran in the shell through TierExecution, printed
\* nothing and ended with exit code 1: the result is a failure with exit
\* code 1 and an empty output.
C22_Witness ==
    /\ Routed
    /\ input = I_ls
    /\ executed = <<"TierExecutionStrategy">>
    /\ shell_log = <<I_ls>>
    /\ ~result.success
    /\ result.exit_code = 1
    /\ result.output = <<>>

(***************************************************************************)
(* Properties of MemoryPool (specification SpecPool).                      *)
(***************************************************************************)

\* The pointers allocate returned that were not given back yet, as pairs of
\* holder and position in the holder's list.
Outstanding == {<<t, k>> : t \in Threads, k \in 1..MaxHeld} \cap
               {h \in Threads \X (1..MaxHeld) : h[2] <= Len(mp_held[h[1]])}

\* C23: MemoryPool never hands out an object that is still allocated: in
\* every state, under every interleaving of the threads' allocate and
\* deallocate calls, every object returned by allocate and not yet
\* deallocated has in_use_ = true, no two outstanding allocations refer to
\* the same object, available() is size() minus the number of outstanding
\* allocations, and the pool is never smaller than a size() returned before.
C23_NoDoubleHandOut ==
    /\ \A h \in Outstanding : mp_pool[mp_held[h[1]][h[2]]].in_use_
    /\ \A g, h \in Outstanding :
          g # h => mp_held[g[1]][g[2]] # mp_held[h[1]][h[2]]
    /\ available(mp_pool) = size(mp_pool) - Cardinality(Outstanding)
    /\ \A t \in Threads : mp_size_ret[t] <= size(mp_pool)

====
